---- MODULE Spec2Model ----
(***************************************************************************)
(* A model of the colour engine of oklch-color-picker (src/src/gamut.rs),  *)
(* of the readers of colour strings (src/src/formats.rs) and of the places *)
(* that use them: the application (src/src/app.rs), the Lua module         *)
(* (src/src/lib.rs, src/src/cli.rs) and the parser daemon                  *)
(* (src/src/parser_daemon.rs).                                             *)
(*                                                                         *)
(* Reals.  The program computes in f32.  The model computes in decimal     *)
(* fixed point: a real v is the integer v * h * h, where h is the "half    *)
(* scale" of the computation (h = 10^3: six decimals, used by the gamut    *)
(* code; h = 10^4: eight decimals, used where a claim states a tolerance   *)
(* of 1e-5).  Every product is rounded to the nearest unit, every quotient *)
(* and root likewise, so a model value differs from the f32 value by       *)
(* a few units of the last decimal.  A division by zero, which in f32      *)
(* yields an infinity or a NaN, is reported by the operators that can      *)
(* meet one (see toe_inv_pole).                                            *)
(***************************************************************************)
EXTENDS Integers, Sequences, FiniteSets, TLC

VARIABLES pc, fn, arg, ret, app, stdout, conn

vars == <<pc, fn, arg, ret, app, stdout, conn>>

-----------------------------------------------------------------------------
(* Fixed-point arithmetic at half scale h (one == h * h).                  *)

Half == 10 ^ 3

HalfT == 10 ^ 4

One(h) == h * h

Abs(x) == IF x < 0 THEN -x ELSE x

Sgn(x) == IF x < 0 THEN -1 ELSE 1

Max(x, y) == IF x >= y THEN x ELSE y

Min(x, y) == IF x <= y THEN x ELSE y

\* f32::clamp(lo, hi)
Clamp(x, lo, hi) == IF x < lo THEN lo ELSE IF x > hi THEN hi ELSE x

\* the element of a set of one element
Only(S) == CHOOSE x \in S : TRUE

\* let x = value; F(x)
Let(value, F(_)) == Only({F(x) : x \in {value}})

\* a * b / (h*h) for a, b >= 0, rounded to nearest, in 32-bit limbs
MulU(h, a, b) ==
    LET ah == a \div h
        al == a % h
        bh == b \div h
        bl == b % h
    IN  ah * bh + ((ah * bl + al * bh + ((al * bl) \div h) + (h \div 2)) \div h)

MulQ(h, a, b) == Sgn(a) * Sgn(b) * MulU(h, Abs(a), Abs(b))

\* the n leading decimals of r / b, for 0 <= r < b
RECURSIVE DivFrac(_, _, _)
DivFrac(r, b, n) ==
    IF n = 0 THEN 0
    ELSE ((r * 10) \div b) * (10 ^ (n - 1)) + DivFrac((r * 10) % b, b, n - 1)

Digits(h) == IF h = Half THEN 6 ELSE 8

\* a * (h*h) / b for b # 0, rounded to nearest
DivQ(h, a, b) ==
    LET ua == Abs(a)
        ub == Abs(b)
    IN  Sgn(a) * Sgn(b)
          * ((ua \div ub) * One(h) + ((DivFrac(ua % ub, ub, Digits(h) + 1) + 5) \div 10))

\* a * b = hi * (h*h) + lo exactly, for a, b >= 0: <<hi, lo>>
WMul(h, a, b) ==
    LET ah == a \div h
        al == a % h
        bh == b \div h
        bl == b % h
        c  == ah * bl + al * bh + ((al * bl) \div h)
    IN  <<ah * bh + (c \div h), (c % h) * h + ((al * bl) % h)>>

\* r * r <= x, exactly (r, x >= 0)
SquareLeq(h, r, x) ==
    LET w == WMul(h, r, r)
    IN  w[1] < x \/ (w[1] = x /\ w[2] = 0)

\* the largest r in lo..hi with r*r <= x
RECURSIVE SqrtSearch(_, _, _, _)
SqrtSearch(h, x, lo, hi) ==
    IF lo >= hi THEN lo
    ELSE LET mid == (lo + hi + 1) \div 2
         IN  IF SquareLeq(h, mid, x)
             THEN SqrtSearch(h, x, mid, hi)
             ELSE SqrtSearch(h, x, lo, mid - 1)

\* f32::sqrt for x >= 0, rounded to nearest (a negative x is NaN: see toe_nan)
SqrtQ(h, x) ==
    LET r == SqrtSearch(h, x, 0, Max(One(h), x))
    IN  IF x - MulQ(h, r, r) > MulQ(h, r + 1, r + 1) - x THEN r + 1 ELSE r

-----------------------------------------------------------------------------
(* gamut.rs: the toe function pair.                                        *)

K1_milli == 206

K2_milli == 30

K1(h) == K1_milli * (One(h) \div 1000)

K2(h) == K2_milli * (One(h) \div 1000)

K3(h) == DivQ(h, One(h) + K1(h), One(h) + K2(h))

\* the denominator of toe_inv: K3 * (lr + K2)
toe_inv_den(h, lr) == MulQ(h, K3(h), lr + K2(h))

\* toe_inv divides by zero (f32: an infinity, or NaN for 0/0)
toe_inv_pole(h, lr) == toe_inv_den(h, lr) = 0

\* toe_inv with K1 and K2 exchanged
toe_inv_swapped(h, lr) == DivQ(h, MulQ(h, lr, lr + K2(h)), MulQ(h, K3(h), lr + K1(h)))

\* L_r to L
toe_inv(h, lr) == DivQ(h, MulQ(h, lr, lr + K1(h)), toe_inv_den(h, lr))

\* the radicand with the sign of its linear term flipped
toe_radicand_neg(h, l) ==
    LET kl == MulQ(h, K3(h), l) - K1(h)
    IN  MulQ(h, kl, kl) - MulQ(h, MulQ(h, 4 * K2(h), K3(h)), l)

\* the quantity under toe's square root
toe_radicand(h, l) ==
    LET kl == MulQ(h, K3(h), l) - K1(h)
    IN  MulQ(h, kl, kl) + MulQ(h, MulQ(h, 4 * K2(h), K3(h)), l)

\* toe returns NaN
toe_nan(h, l) == toe_radicand(h, l) < 0

\* toe taking the other root of the quadratic
toe_other_root(h, l) ==
    (MulQ(h, K3(h), l) - K1(h) - SqrtQ(h, toe_radicand(h, l))) \div 2

\* L to L_r
toe(h, l) ==
    (MulQ(h, K3(h), l) - K1(h) + SqrtQ(h, toe_radicand(h, l))) \div 2

\* a value too large for the fixed point of the toe pair (|v| < 10)
Large(h, v) == Abs(v) > 4 * One(h)

\* an f32 result: a finite number, or NaN / an infinity / a value out of the
\* model's range
Num(v) == [fin |-> TRUE, v |-> v]

NotNum == [fin |-> FALSE, v |-> 0]

toe_f(h, x) ==
    IF ~x.fin \/ Large(h, x.v) \/ toe_nan(h, x.v) THEN NotNum ELSE Num(toe(h, x.v))

toe_inv_f(h, x) ==
    IF ~x.fin \/ Large(h, x.v) \/ toe_inv_pole(h, x.v) THEN NotNum
    ELSE Num(toe_inv(h, x.v))

-----------------------------------------------------------------------------
(* Six-decimal arithmetic of the gamut code, and the f32 values that are   *)
(* not finite numbers.                                                     *)

M(a, b) == MulQ(Half, a, b)

D(a, b) == DivQ(Half, a, b)

\* f32::powi(3)
P3(x) == M(M(x, x), x)

\* The f32 values beyond the numbers the model computes with (|v| < 2^30
\* units), ordered as f32 orders them: -inf < numbers < f32::MAX < +inf.
NegInf == -(2 ^ 30)

F32_MAX == 2 ^ 30

PosInf == 2 ^ 30 + 1

\* NaN (also standing for an infinity where the code turns it into NaN at
\* once, as noted at each use)
NaN == 2 ^ 30 + 2

IsNum(x) == NegInf < x /\ x < F32_MAX

\* f32::min: a NaN operand is ignored
FMin(x, y) == IF x = NaN THEN y ELSE IF y = NaN THEN x ELSE Min(x, y)

\* x + y for a number x: y wins when it is f32::MAX, an infinity or NaN
FAdd(x, y) == IF IsNum(y) THEN x + y ELSE y

\* x / y in f32, for numbers x and y: 0/0 is NaN, x/0 an infinity
FDiv(x, y) ==
    IF y # 0 THEN D(x, y)
    ELSE IF x = 0 THEN NaN ELSE IF x > 0 THEN PosInf ELSE NegInf

\* r * r * r <= x, exactly (r, x >= 0)
CubeLeq(r, x) ==
    LET sq == WMul(Half, r, r)
        hi == WMul(Half, sq[1], r)
        lo == WMul(Half, sq[2], r)
        q  == hi[1] + ((hi[2] + lo[1]) \div One(Half))
    IN  q < x \/ (q = x /\ (hi[2] + lo[1]) % One(Half) = 0 /\ lo[2] = 0)

\* the largest r in lo..hi with r*r*r <= x
RECURSIVE CbrtSearch(_, _, _)
CbrtSearch(x, lo, hi) ==
    IF lo >= hi THEN lo
    ELSE LET mid == (lo + hi + 1) \div 2
         IN  IF CubeLeq(mid, x) THEN CbrtSearch(x, mid, hi) ELSE CbrtSearch(x, lo, mid - 1)

\* f32::cbrt, rounded to nearest
Cbrt(x) ==
    LET ux == Abs(x)
        r  == CbrtSearch(ux, 0, Max(One(Half), ux))
    IN  Sgn(x) * (IF ux - P3(r) > P3(r + 1) - ux THEN r + 1 ELSE r)

-----------------------------------------------------------------------------
(* bevy_color: the Oklab <-> linear RGB transform the gamut code calls.    *)

LinearRgba(r, g, b, al) == [red |-> r, green |-> g, blue |-> b, alpha |-> al]

Oklaba(l, a, b, al) == [lightness |-> l, a |-> a, b |-> b, alpha |-> al]

\* the LMS cube roots of an Oklab point: L + k_l, L + k_m, L + k_s
k_l(a, b) == M(396338, a) + M(215804, b)

k_m(a, b) == M(-105561, a) - M(63854, b)

k_s(a, b) == M(-89484, a) - M(1291486, b)

\* the rows of the LMS -> linear RGB matrix
RowR(l, m, s) == M(4076742, l) - M(3307712, m) + M(230970, s)

RowG(l, m, s) == M(-1268438, l) + M(2609757, m) - M(341319, s)

RowB(l, m, s) == M(-4196, l) - M(703419, m) + M(1707615, s)

\* LMS to linear RGB
LinearRgba_from_lms(l, m, s, al) == LinearRgba(RowR(l, m, s), RowG(l, m, s), RowB(l, m, s), al)

\* LinearRgba::from(Oklaba)
LinearRgba_from_Oklaba(lab) ==
    LinearRgba_from_lms(P3(lab.lightness + k_l(lab.a, lab.b)),
                        P3(lab.lightness + k_m(lab.a, lab.b)),
                        P3(lab.lightness + k_s(lab.a, lab.b)), lab.alpha)

\* the cube roots l_, m_, s_ of LMS to Oklab
Oklaba_from_lms(l_, m_, s_, al) ==
    Oklaba(M(210454, l_) + M(793618, m_) - M(4072, s_),
           M(1977998, l_) - M(2428592, m_) + M(450594, s_),
           M(25904, l_) + M(782772, m_) - M(808676, s_),
           al)

\* Oklaba::from(LinearRgba)
Oklaba_from_LinearRgba(rgba) ==
    Oklaba_from_lms(
        Cbrt(M(412221, rgba.red) + M(536333, rgba.green) + M(51446, rgba.blue)),
        Cbrt(M(211903, rgba.red) + M(680700, rgba.green) + M(107397, rgba.blue)),
        Cbrt(M(88302, rgba.red) + M(281719, rgba.green) + M(629979, rgba.blue)),
        rgba.alpha)

-----------------------------------------------------------------------------
(* bevy_color: the sRGB transfer function and the 8-bit channels.          *)

\* f32::powi(5)
P5(x) == M(M(M(M(x, x), x), x), x)

\* the largest r in lo..hi with r^5 <= x, to the rounding of the products
RECURSIVE FifthRootSearch(_, _, _)
FifthRootSearch(x, lo, hi) ==
    IF lo >= hi THEN lo
    ELSE Let((lo + hi + 1) \div 2,
             LAMBDA mid : IF P5(mid) <= x THEN FifthRootSearch(x, mid, hi)
                          ELSE FifthRootSearch(x, lo, mid - 1))

\* powf(x, 1.0 / 2.4) for x > 0: the fifth power of the twelfth root
PowInv24(x) ==
    Let(Cbrt(x), LAMBDA c :
        Let(SqrtQ(Half, c), LAMBDA q :
            Let(SqrtQ(Half, q), LAMBDA r : P5(r))))

\* powf(x, 2.4) for x > 0: x^2 times the square of the fifth root
Pow24(x) ==
    Let(FifthRootSearch(x, 0, Max(One(Half), x)), LAMBDA r : M(M(x, x), M(r, r)))

\* linear to sRGB, one channel: NaN stays NaN, a value <= 0 is returned as is
gamma_function_inverse(value) ==
    IF value = NaN THEN NaN
    ELSE IF value <= 0 THEN value
    ELSE IF value <= 3131 THEN M(value, 12920000)
    ELSE Let(PowInv24(value), LAMBDA p : M(1055000, p) - 55000)

\* sRGB to linear, one channel
gamma_function(value) ==
    IF value = NaN THEN NaN
    ELSE IF value <= 0 THEN value
    ELSE IF value <= 40450 THEN D(value, 12920000)
    ELSE Let(D(value + 55000, 1055000), LAMBDA x : Pow24(x))

\* a colour of nonlinear sRGB channels
Srgba(r, g, b, al) == [red |-> r, green |-> g, blue |-> b, alpha |-> al]

\* Srgba::from(LinearRgba)
Srgba_from_LinearRgba(rgba) ==
    Srgba(gamma_function_inverse(rgba.red), gamma_function_inverse(rgba.green),
          gamma_function_inverse(rgba.blue), rgba.alpha)

\* LinearRgba::from(Srgba)
LinearRgba_from_Srgba(srgba) ==
    LinearRgba(gamma_function(srgba.red), gamma_function(srgba.green),
               gamma_function(srgba.blue), srgba.alpha)

\* (v.clamp(0.0, 1.0) * 255.0).round() as u8: the cast of NaN is 0
ChannelU8(v) ==
    IF v = NaN THEN 0
    ELSE (Clamp(v, 0, One(Half)) * 255 + One(Half) \div 2) \div One(Half)

\* Srgba::to_u8_array
to_u8_array(srgba) ==
    <<ChannelU8(srgba.red), ChannelU8(srgba.green), ChannelU8(srgba.blue),
      ChannelU8(srgba.alpha)>>

\* Srgba::to_u8_array_no_alpha
to_u8_array_no_alpha(srgba) ==
    <<ChannelU8(srgba.red), ChannelU8(srgba.green), ChannelU8(srgba.blue)>>

-----------------------------------------------------------------------------
(* gamut.rs: the gamut geometry.  A function of the source whose locals    *)
(* depend on one another is a chain of operators, each taking the locals   *)
(* computed so far as its parameters.                                      *)

\* the coefficients k0..k4, wl, wm, ws of the branch compute_max_saturation
\* selects
SaturationCoefficients(a, b) ==
    IF M(-1881703, a) - M(809365, b) > One(Half)
    THEN <<1190863, 1765767, 596626, 755152, 567712, 4076742, -3307712, 230970>>
    ELSE IF M(1814441, a) - M(1194453, b) > One(Half)
    THEN <<739565, -459544, 82854, 125411, 145032, -1268438, 2609757, -341319>>
    ELSE <<1357337, -9158, -1151302, -505596, 6922, -4196, -703419, 1707615>>

\* S - f * f1 / (f1 * f1 - 0.5 * f * f2); NaN when the division is by zero
\* (0/0 is NaN; x/0 is an infinity, which find_cusp and
\* find_gamut_intersection turn into NaN)
MaxSaturationStep(ss, f, f1, den) == IF den = 0 THEN NaN ELSE ss - D(M(f, f1), den)

MaxSaturationHalley(ss, f, f1, f2) ==
    MaxSaturationStep(ss, f, f1, M(f1, f1) - M(f \div 2, f2))

\* f, f1 and f2 from l_, m_, s_ and their derivatives
MaxSaturationLms(k, ss, kl, km, ks, l_, m_, s_) ==
    MaxSaturationHalley(ss,
        M(k[6], P3(l_)) + M(k[7], P3(m_)) + M(k[8], P3(s_)),
        M(k[6], M(M(3 * kl, l_), l_)) + M(k[7], M(M(3 * km, m_), m_))
            + M(k[8], M(M(3 * ks, s_), s_)),
        M(k[6], M(M(6 * kl, kl), l_)) + M(k[7], M(M(6 * km, km), m_))
            + M(k[8], M(M(6 * ks, ks), s_)))

MaxSaturationAt(k, ss, kl, km, ks) ==
    MaxSaturationLms(k, ss, kl, km, ks,
                     One(Half) + M(ss, kl), One(Half) + M(ss, km), One(Half) + M(ss, ks))

\* the polynomial approximation S of the maximum saturation
MaxSaturationGuess(k, a, b) ==
    MaxSaturationAt(k, k[1] + M(k[2], a) + M(k[3], b) + M(M(k[4], a), a) + M(M(k[5], a), b),
                    k_l(a, b), k_m(a, b), k_s(a, b))

\* the maximum saturation of the hue direction (a, b)
compute_max_saturation(a, b) == MaxSaturationGuess(SaturationCoefficients(a, b), a, b)

CuspAtL(s_cusp, l_cusp) == <<l_cusp, M(l_cusp, s_cusp)>>

\* 1 / max is an infinity when max is 0: find_gamut_intersection turns it
\* into NaN
CuspAtTop(s_cusp, top) ==
    IF top = 0 THEN <<NaN, NaN>> ELSE CuspAtL(s_cusp, Cbrt(D(One(Half), top)))

CuspAtRgb(s_cusp, rgb_at_max) ==
    CuspAtTop(s_cusp, Max(Max(rgb_at_max.red, rgb_at_max.green), rgb_at_max.blue))

CuspAt(a, b, s_cusp) ==
    IF s_cusp = NaN THEN <<NaN, NaN>>
    ELSE CuspAtRgb(s_cusp, LinearRgba_from_Oklaba(
                       Oklaba(One(Half), M(s_cusp, a), M(s_cusp, b), One(Half))))

\* the cusp (L_cusp, C_cusp) of the hue direction (a, b)
find_cusp(a, b) == CuspAt(a, b, compute_max_saturation(a, b))

\* t_r from r and u_r = r1 / (r1 * r1 - 0.5 * r * r2)
HalleyCorrection(r, u) ==
    IF u = PosInf
    THEN (IF r > 0 THEN NegInf ELSE IF r < 0 THEN PosInf ELSE NaN)
    ELSE IF IsNum(u) /\ u >= 0 THEN M(-r, u)
    ELSE F32_MAX

\* One channel of the Halley step of find_gamut_intersection: the correction
\* t_r (t_g, t_b) from the channel's value r and its derivatives r1, r2.
HalleyChannel(r, r1, r2) == HalleyCorrection(r, FDiv(r1, M(r1, r1) - M(r \div 2, r2)))

UpperStep(t, l, m, s, l_dt, m_dt, s_dt, l_dt2, m_dt2, s_dt2) ==
    FAdd(t, FMin(HalleyChannel(RowR(l, m, s) - One(Half),
                               RowR(l_dt, m_dt, s_dt), RowR(l_dt2, m_dt2, s_dt2)),
                 FMin(HalleyChannel(RowG(l, m, s) - One(Half),
                                    RowG(l_dt, m_dt, s_dt), RowG(l_dt2, m_dt2, s_dt2)),
                      HalleyChannel(RowB(l, m, s) - One(Half),
                                    RowB(l_dt, m_dt, s_dt), RowB(l_dt2, m_dt2, s_dt2)))))

\* l_dt2 = 6 * l_dt * l_dt * l_: the l_dt here is the second one, which
\* shadows the first
UpperSecond(t, l_, m_, s_, l_dt, m_dt, s_dt) ==
    UpperStep(t, P3(l_), P3(m_), P3(s_), l_dt, m_dt, s_dt,
              M(M(6 * l_dt, l_dt), l_), M(M(6 * m_dt, m_dt), m_), M(M(6 * s_dt, s_dt), s_))

UpperFirst(t, dll, dcc, kl, km, ks, l_, m_, s_) ==
    UpperSecond(t, l_, m_, s_,
                M(M(3 * (dll + M(dcc, kl)), l_), l_),
                M(M(3 * (dll + M(dcc, km)), m_), m_),
                M(M(3 * (dll + M(dcc, ks)), s_), s_))

UpperPoint(t, dll, dcc, kl, km, ks, ll_t, cc_t) ==
    UpperFirst(t, dll, dcc, kl, km, ks,
               ll_t + M(cc_t, kl), ll_t + M(cc_t, km), ll_t + M(cc_t, ks))

\* one step of Halley's method from t; a NaN or infinite t makes every
\* channel NaN and every u_r >= 0 false
UpperHalley(a, b, ll1, cc1, ll0, t) ==
    IF ~IsNum(t) THEN t
    ELSE UpperPoint(t, ll1 - ll0, cc1, k_l(a, b), k_m(a, b), k_s(a, b),
                    M(ll0, One(Half) - t) + M(t, ll1), M(t, cc1))

\* the upper half of find_gamut_intersection: the intersection with the
\* triangle, then one step of Halley's method
UpperHalf(a, b, ll1, cc1, ll0, ll, cc) ==
    UpperHalley(a, b, ll1, cc1, ll0,
                FDiv(M(cc, ll0 - One(Half)), M(cc1, ll - One(Half)) + M(cc, ll0 - ll1)))

\* the lower half of find_gamut_intersection
LowerHalf(ll1, cc1, ll0, ll, cc) ==
    FDiv(M(cc, ll0), M(cc1, ll) + M(cc, ll0 - ll1))

\* the cross product that selects the half
HalfTest(ll1, cc1, ll0, ll, cc) == M(ll1 - ll0, cc) - M(ll - ll0, cc1)

\* with a NaN cusp the test is false and the upper half yields NaN
IntersectionAt(a, b, ll1, cc1, ll0, cusp) ==
    IF cusp[1] = NaN THEN NaN
    ELSE IF HalfTest(ll1, cc1, ll0, cusp[1], cusp[2]) <= 0
    THEN LowerHalf(ll1, cc1, ll0, cusp[1], cusp[2])
    ELSE UpperHalf(a, b, ll1, cc1, ll0, cusp[1], cusp[2])

\* the parameter t at which the segment from (ll0, 0) to (ll1, cc1) crosses
\* the gamut boundary of the hue direction (a, b)
find_gamut_intersection(a, b, ll1, cc1, ll0) ==
    IntersectionAt(a, b, ll1, cc1, ll0, find_cusp(a, b))

\* f32::clamp(0., 1.): NaN stays NaN
Clamp01(x) == IF x = NaN THEN NaN ELSE Clamp(x, 0, One(Half))

\* clamp_rgba returning an opaque colour
clamp_rgba_opaque(rgba) ==
    LinearRgba(Clamp01(rgba.red), Clamp01(rgba.green), Clamp01(rgba.blue), One(Half))

clamp_rgba(rgba) ==
    LinearRgba(Clamp01(rgba.red), Clamp01(rgba.green), Clamp01(rgba.blue),
               Clamp01(rgba.alpha))

\* the fast-path test with strict comparisons
InGamutStrict(rgba) ==
    /\ rgba.red < One(Half) /\ rgba.green < One(Half) /\ rgba.blue < One(Half)
    /\ rgba.red > 0 /\ rgba.green > 0 /\ rgba.blue > 0

\* the fast-path test of gamut_clip_preserve_chroma
InGamut(rgba) ==
    /\ rgba.red <= One(Half) /\ rgba.green <= One(Half) /\ rgba.blue <= One(Half)
    /\ rgba.red >= 0 /\ rgba.green >= 0 /\ rgba.blue >= 0

\* eps of gamut_clip_preserve_chroma: 0.00001
Eps == 10

ClipGeometryDir(laba, cc, a_, b_, ll0) ==
    [laba |-> laba, ll |-> laba.lightness, cc |-> cc, a_ |-> a_, b_ |-> b_, ll0 |-> ll0,
     t |-> find_gamut_intersection(a_, b_, laba.lightness, cc, ll0)]

ClipGeometryAt(laba, cc) ==
    ClipGeometryDir(laba, cc, D(laba.a, cc), D(laba.b, cc),
                    Clamp(laba.lightness, 0, One(Half)))

ClipGeometryOf(laba) ==
    ClipGeometryAt(laba, Max(Eps, SqrtQ(Half, M(laba.a, laba.a) + M(laba.b, laba.b))))

\* the intermediate values of gamut_clip_preserve_chroma on its slow path:
\* laba, ll, cc, a_, b_, ll0 and t
ClipGeometry(rgba) == ClipGeometryOf(Oklaba_from_LinearRgba(rgba))

\* the clipped point with a and b exchanged
ClippedOklabaSwapped(rgba, g) ==
    Oklaba(M(g.ll0, One(Half) - g.t) + M(g.t, g.ll),
           M(M(g.t, g.cc), g.b_), M(M(g.t, g.cc), g.a_), rgba.alpha)

\* the Oklab point (ll_clipped, cc_clipped * a_, cc_clipped * b_) that the
\* slow path converts back to linear RGB
ClippedOklaba(rgba, g) ==
    Oklaba(M(g.ll0, One(Half) - g.t) + M(g.t, g.ll),
           M(M(g.t, g.cc), g.a_), M(M(g.t, g.cc), g.b_), rgba.alpha)

\* the slow path from t on; with t not a number (NaN, an infinity, f32::MAX)
\* the lightness is NaN or the LMS cubes overflow, and the channels come out
\* NaN
ClipSlow(rgba, g) ==
    IF ~IsNum(g.t)
    THEN clamp_rgba(LinearRgba(NaN, NaN, NaN, rgba.alpha))
    ELSE clamp_rgba(LinearRgba_from_Oklaba(ClippedOklaba(rgba, g)))

\* 0.003, the threshold of calculate_fallbacks
Threshold == 3000

\* every channel of x is a number within 0.003 of the same channel of y
WithinThreshold(x, y) ==
    /\ IsNum(x.red) /\ IsNum(x.green) /\ IsNum(x.blue)
    /\ Abs(x.red - y.red) < Threshold
    /\ Abs(x.green - y.green) < Threshold
    /\ Abs(x.blue - y.blue) < Threshold

ShortCircuit(rgba, result) == IF WithinThreshold(result, rgba) THEN rgba ELSE result

\* gamut_clip_preserve_chroma with a perceptual short-circuit: the input is
\* returned when the result is within 0.003 of it in every channel
gamut_clip_short_circuit(rgba) ==
    IF InGamut(rgba) THEN rgba
    ELSE ShortCircuit(rgba, ClipSlow(rgba, ClipGeometry(rgba)))

gamut_clip_preserve_chroma(rgba) ==
    IF InGamut(rgba) THEN rgba
    ELSE ClipSlow(rgba, ClipGeometry(rgba))

-----------------------------------------------------------------------------
(* gamut.rs: Oklrcha and its conversions.                                  *)

Oklcha(l, c, hh, al) == [lightness |-> l, chroma |-> c, hue |-> hh, alpha |-> al]

Oklrcha(lr, c, hh, al) == [lightness_r |-> lr, chroma |-> c, hue |-> hh, alpha |-> al]

\* impl From<Oklrcha> for Oklcha
Oklcha_from_Oklrcha(oklrcha) ==
    Oklcha(toe_inv(Half, oklrcha.lightness_r), oklrcha.chroma, oklrcha.hue, oklrcha.alpha)

\* the conversion with chroma and hue exchanged
Oklrcha_from_Oklcha_swapped(oklcha) ==
    Oklrcha(toe(Half, oklcha.lightness), oklcha.hue, oklcha.chroma, oklcha.alpha)

\* impl From<Oklcha> for Oklrcha
Oklrcha_from_Oklcha(oklcha) ==
    Oklrcha(toe(Half, oklcha.lightness), oklcha.chroma, oklcha.hue, oklcha.alpha)

-----------------------------------------------------------------------------
(* The toe pair and the Oklch <-> Oklrch conversions applied to sampled    *)
(* inputs: one call at a time, from idle to done and back.                 *)

\* samples per unit of lightness
ToeSteps == 100

ToeUnit == One(HalfT) \div ToeSteps

\* [-0.1, 1.1], the interval of spec section 8
ToeGrid ==
    {k * ToeUnit : k \in -(ToeSteps \div 10) .. (ToeSteps + ToeSteps \div 10)}
        \cup {One(HalfT), -K2(HalfT)}

\* [0, 1]
ToeGrid01 == {k * ToeUnit : k \in 0 .. (ToeSteps - 1)} \cup {One(HalfT)}

\* samples per unit of lightness, chroma and alpha of the conversions
ConvSteps == 4

ConvGrid == {(k * One(Half)) \div ConvSteps : k \in 0 .. ConvSteps}

ConvHues == {0, 120 * One(Half), 359 * One(Half) + One(Half) \div 2}

ConvChromas == {0, One(Half) \div 10, (4 * One(Half)) \div 10}

Idle == pc = "idle"

\* no window: the functions are called on their own
NoApp == [open |-> FALSE]

\* no client of the parser daemon
NoConn == [open |-> FALSE]

Call(f, a, r) == /\ pc' = "done"
                 /\ fn' = f
                 /\ arg' = a
                 /\ ret' = r
                 /\ UNCHANGED <<app, stdout, conn>>

Return == /\ pc = "done"
          /\ pc' = "idle"
          /\ fn' = "none"
          /\ arg' = 0
          /\ ret' = 0
          /\ UNCHANGED <<app, stdout, conn>>

InitIdle == /\ pc = "idle"
            /\ fn = "none"
            /\ arg = 0
            /\ ret = 0
            /\ app = NoApp
            /\ conn = NoConn
            /\ stdout = <<>>

CallToe == Idle /\ \E l \in ToeGrid :
    Call("toe", l, [radicand |-> toe_radicand(HalfT, l), out |-> toe_f(HalfT, Num(l))])

CallToeInv == Idle /\ \E l \in ToeGrid : Call("toe_inv", l, toe_inv_f(HalfT, Num(l)))

CallToeInvOfToe == Idle /\ \E l \in ToeGrid :
    Call("toe_inv(toe)", l, toe_inv_f(HalfT, toe_f(HalfT, Num(l))))

CallToeOfToeInv == Idle /\ \E l \in ToeGrid :
    Call("toe(toe_inv)", l, toe_f(HalfT, toe_inv_f(HalfT, Num(l))))

CallToePair == Idle /\ \E x \in ToeGrid01 : \E y \in ToeGrid01 :
    /\ x < y
    /\ Call("toe pair", <<x, y>>, <<toe(HalfT, x), toe(HalfT, y)>>)

CallToeInvPair == Idle /\ \E x \in ToeGrid01 : \E y \in ToeGrid01 :
    /\ x < y
    /\ Call("toe_inv pair", <<x, y>>, <<toe_inv(HalfT, x), toe_inv(HalfT, y)>>)

CallOklrchaFromOklcha ==
    Idle /\ \E l \in ConvGrid : \E c \in ConvChromas : \E hh \in ConvHues : \E al \in ConvGrid :
        Call("Oklrcha::from(Oklcha)", Oklcha(l, c, hh, al),
             Oklrcha_from_Oklcha(Oklcha(l, c, hh, al)))

CallOklchaFromOklrcha ==
    Idle /\ \E l \in ConvGrid : \E c \in ConvChromas : \E hh \in ConvHues : \E al \in ConvGrid :
        Call("Oklcha::from(Oklrcha)", Oklrcha(l, c, hh, al),
             Oklcha_from_Oklrcha(Oklrcha(l, c, hh, al)))

NextToe == \/ CallToe
           \/ CallToeInv
           \/ CallToeInvOfToe
           \/ CallToeOfToeInv
           \/ CallToePair
           \/ CallToeInvPair
           \/ CallOklrchaFromOklcha
           \/ CallOklchaFromOklrcha
           \/ Return

SpecToe == InitIdle /\ [][NextToe]_vars

-----------------------------------------------------------------------------
(* gamut.rs: Okhsva to Oklaba.  The hue is in degrees; cos and sin are     *)
(* tabulated at the twelfths of a turn, the hues the model samples.        *)

Okhsva(hh, s, v, al) == [hue |-> hh, saturation |-> s, value |-> v, alpha |-> al]

\* okhsv.hue / 360.
TurnOf(hue) == (hue + 180) \div 360

\* the twelfth of a turn nearest to h
Twelfth(h) == ((h * 12 + One(Half) \div 2) \div One(Half)) % 12

CosTable == <<1000000, 866025, 500000, 0, -500000, -866025,
              -1000000, -866025, -500000, 0, 500000, 866025>>

\* (2. * PI * h).cos()
cos_turn(h) == CosTable[Twelfth(h) + 1]

\* (2. * PI * h).sin()
sin_turn(h) == CosTable[((Twelfth(h) + 9) % 12) + 1]

to_st(cusp) == <<FDiv(cusp[2], cusp[1]), FDiv(cusp[2], One(Half) - cusp[1])>>

\* a result some component of which is an infinity or NaN
OklabaNotNum(alpha) == Oklaba(NaN, NaN, NaN, alpha)

\* s_0 of the Okhsv conversions: 0.5
S0 == One(Half) \div 2

\* l *= scale_l; c *= scale_l; Oklaba::new(l, c * a_, c * b_, alpha)
OkhsvaScaled(alpha, a_, b_, l_new, c_new, scale_l) ==
    Oklaba(M(l_new, scale_l), M(M(c_new, scale_l), a_), M(M(c_new, scale_l), b_), alpha)

OkhsvaTop(alpha, a_, b_, l_new, c_new, top) ==
    IF top = 0 THEN OklabaNotNum(alpha)
    ELSE OkhsvaScaled(alpha, a_, b_, l_new, c_new, Cbrt(D(One(Half), top)))

OkhsvaRgbScale(alpha, a_, b_, l_new, c_new, rgb_scale) ==
    OkhsvaTop(alpha, a_, b_, l_new, c_new,
              Max(Max(rgb_scale.red, rgb_scale.green), Max(rgb_scale.blue, 0)))

OkhsvaCompensated(alpha, a_, b_, l_vt, c_vt, l_new, c_new) ==
    OkhsvaRgbScale(alpha, a_, b_, l_new, c_new,
                   LinearRgba_from_Oklaba(Oklaba(l_vt, M(a_, c_vt), M(b_, c_vt), One(Half))))

OkhsvaToe(alpha, a_, b_, l_v, c_v, l, c, l_vt, l_new) ==
    OkhsvaCompensated(alpha, a_, b_, l_vt, D(M(c_v, l_vt), l_v), l_new, D(M(c, l_new), l))

OkhsvaLc(alpha, a_, b_, l_v, c_v, l, c) ==
    IF l_v = 0 \/ l = 0 \/ toe_inv_pole(Half, l_v) \/ toe_inv_pole(Half, l)
    THEN OklabaNotNum(alpha)
    ELSE OkhsvaToe(alpha, a_, b_, l_v, c_v, l, c, toe_inv(Half, l_v), toe_inv(Half, l))

OkhsvaV(v, alpha, a_, b_, l_v, c_v) ==
    OkhsvaLc(alpha, a_, b_, l_v, c_v, M(v, l_v), M(v, c_v))

OkhsvaDen(s, v, alpha, a_, b_, t_max, den) ==
    IF den = 0 THEN OklabaNotNum(alpha)
    ELSE OkhsvaV(v, alpha, a_, b_,
                 One(Half) - D(M(s, S0), den), D(M(M(s, t_max), S0), den))

OkhsvaK(s, v, alpha, a_, b_, t_max, k) ==
    OkhsvaDen(s, v, alpha, a_, b_, t_max, S0 + t_max - M(M(t_max, k), s))

OkhsvaSt(s, v, alpha, a_, b_, st) ==
    OkhsvaK(s, v, alpha, a_, b_, st[2], One(Half) - D(S0, st[1]))

OkhsvaCusp(s, v, alpha, a_, b_, cusp) ==
    IF cusp[1] = NaN \/ cusp[1] = 0 \/ cusp[1] = One(Half) \/ cusp[2] = 0
    THEN OklabaNotNum(alpha)
    ELSE OkhsvaSt(s, v, alpha, a_, b_, to_st(cusp))

OkhsvaDir(s, v, alpha, a_, b_) == OkhsvaCusp(s, v, alpha, a_, b_, find_cusp(a_, b_))

\* the conversion from line 330 on: v is not zero
OkhsvaBody(h, s, v, alpha) == OkhsvaDir(s, v, alpha, cos_turn(h), sin_turn(h))

\* the divisions and the calls of the conversion after the test of v
BodyDivisions ==
    <<"c_cusp / l_cusp", "c_cusp / (1. - l_cusp)", "s_0 / s_max",
      "s * s_0 / (..)", "s * t_max * s_0 / (..)", "c_v * l_vt / l_v",
      "c * l_new / l", "1. / rgb_scale.max">>

BodyCalls == <<"cos", "sin", "find_cusp", "to_st", "toe_inv", "toe_inv",
               "LinearRgba::from", "cbrt">>

\* the conversion without the test of v
OkhsvaRunUnguarded(okhsv) ==
    [out |-> OkhsvaBody(TurnOf(okhsv.hue), okhsv.saturation, okhsv.value, okhsv.alpha),
     h |-> TurnOf(okhsv.hue),
     divisions |-> <<"hue / 360.">> \o BodyDivisions,
     calls |-> BodyCalls]

\* From<Okhsva> for Oklaba: the value returned, with the divisions performed
\* and the functions called on the way, in the order of the source
OkhsvaRun(okhsv) ==
    LET h == TurnOf(okhsv.hue)
        s == okhsv.saturation
        v == okhsv.value
    IN  IF v = 0
        THEN [out |-> Oklaba(0, 0, 0, okhsv.alpha), h |-> h,
              divisions |-> <<"hue / 360.">>, calls |-> <<>>]
        ELSE [out |-> OkhsvaBody(h, s, v, okhsv.alpha), h |-> h,
              divisions |-> <<"hue / 360.">> \o BodyDivisions,
              calls |-> BodyCalls]

Oklaba_from_Okhsva(okhsv) == OkhsvaRun(okhsv).out

-----------------------------------------------------------------------------
(* gamut.rs: Oklaba to Okhsva.  f32::atan2 is computed by two halvings of  *)
(* the angle and the series of atan.                                       *)

Pi == 3141593

\* x - x^3 / 3 + x^5 / 5 - x^7 / 7, for a small x and x2 = x * x
AtanSeries(x, x2) ==
    x - D(M(x, x2), 3 * One(Half)) + D(M(M(x, x2), x2), 5 * One(Half))
      - D(M(M(M(x, x2), x2), x2), 7 * One(Half))

AtanSmall(x) == AtanSeries(x, M(x, x))

\* tan of half the angle whose tan is x
AtanHalve(x) == D(x, One(Half) + SqrtQ(Half, One(Half) + M(x, x)))

\* atan(x) for 0 <= x <= 1
AtanUnit(x) == 4 * AtanSmall(AtanHalve(AtanHalve(x)))

\* the angle of (ax, ay) in the first quadrant (ax, ay >= 0, not both 0)
AtanFirst(ay, ax) ==
    IF ax >= ay THEN AtanUnit(D(ay, ax)) ELSE Pi \div 2 - AtanUnit(D(ax, ay))

Atan2Quadrant(negative, x, base) ==
    (IF negative THEN -1 ELSE 1) * (IF x < 0 THEN Pi - base ELSE base)

\* (-b).atan2(-a), for a and b not both 0; a zero b is +0., its negation -0.
atan2_neg(b, a) == Atan2Quadrant(b >= 0, -a, AtanFirst(Abs(b), Abs(a)))

\* h * 360. with h = 0.5 + 0.5 * (-b).atan2(-a) / PI
HueOf(a, b) == 360 * (One(Half) \div 2 + D(atan2_neg(b, a) \div 2, Pi))

\* a result every field of which is an infinity or NaN
OkhsvaNotNum(alpha) == Okhsva(NaN, NaN, NaN, alpha)

\* v = l / l_v with l = toe(l / scale_l)
HsvValue(hue, s, alpha, l_v, l2) ==
    IF toe_nan(Half, l2) THEN Okhsva(hue, s, NaN, alpha)
    ELSE Okhsva(hue, s, D(toe(Half, l2), l_v), alpha)

\* l /= scale_l; a top of 0 makes scale_l an infinity and l zero
HsvTop(l, hue, s, alpha, l_v, top) ==
    HsvValue(hue, s, alpha, l_v, IF top = 0 THEN 0 ELSE D(l, Cbrt(D(One(Half), top))))

HsvRgbScale(l, hue, s, alpha, l_v, rgb_scale) ==
    HsvTop(l, hue, s, alpha, l_v,
           Max(Max(rgb_scale.red, rgb_scale.green), Max(rgb_scale.blue, 0)))

HsvCompensated(l, a_, b_, hue, s, alpha, l_v, l_vt, c_vt) ==
    HsvRgbScale(l, hue, s, alpha, l_v,
                LinearRgba_from_Oklaba(Oklaba(l_vt, M(a_, c_vt), M(b_, c_vt), One(Half))))

HsvToe(l, a_, b_, hue, s, alpha, l_v, c_v, l_vt) ==
    HsvCompensated(l, a_, b_, hue, s, alpha, l_v, l_vt, D(M(c_v, l_vt), l_v))

\* with l_v = 0, c_vt = c_v * l_vt / l_v is 0/0: rgb_scale is NaN, its max
\* is 0, scale_l an infinity, l becomes 0 and v = l / l_v is 0/0 again
HsvS(l, a_, b_, hue, s, alpha, l_v, c_v) ==
    IF l_v = 0 \/ toe_inv_pole(Half, l_v) THEN Okhsva(hue, s, NaN, alpha)
    ELSE HsvToe(l, a_, b_, hue, s, alpha, l_v, c_v, toe_inv(Half, l_v))

\* s = (s_0 + t_max) * c_v / ((t_max * s_0) + t_max * k * c_v)
HsvLv(l, a_, b_, hue, alpha, t_max, k, l_v, c_v) ==
    HsvS(l, a_, b_, hue,
         FDiv(M(S0 + t_max, c_v), M(t_max, S0) + M(M(t_max, k), c_v)),
         alpha, l_v, c_v)

HsvT(l, c, a_, b_, hue, alpha, t_max, k, t) ==
    IF ~IsNum(t) THEN OkhsvaNotNum(alpha)
    ELSE HsvLv(l, a_, b_, hue, alpha, t_max, k, M(t, l), M(t, c))

HsvK(l, c, a_, b_, hue, alpha, t_max, k) ==
    HsvT(l, c, a_, b_, hue, alpha, t_max, k, FDiv(t_max, c + M(l, t_max)))

HsvSt(l, c, a_, b_, hue, alpha, st) ==
    IF ~IsNum(st[1]) \/ ~IsNum(st[2]) \/ st[1] = 0 THEN OkhsvaNotNum(alpha)
    ELSE HsvK(l, c, a_, b_, hue, alpha, st[2], One(Half) - D(S0, st[1]))

HsvCusp(l, c, a_, b_, hue, alpha, cusp) ==
    IF cusp[1] = NaN THEN OkhsvaNotNum(alpha)
    ELSE HsvSt(l, c, a_, b_, hue, alpha, to_st(cusp))

HsvDir(l, c, a_, b_, hue, alpha) == HsvCusp(l, c, a_, b_, hue, alpha, find_cusp(a_, b_))

\* the conversion without the test of c: a_ and b_ are 0/0
HsvChromaUnguarded(oklaba, c) ==
    IF c = 0 THEN OkhsvaNotNum(oklaba.alpha)
    ELSE HsvDir(oklaba.lightness, c, D(oklaba.a, c), D(oklaba.b, c),
                HueOf(oklaba.a, oklaba.b), oklaba.alpha)

HsvChroma(oklaba, c) ==
    IF c = 0 THEN Okhsva(0, 0, 0, oklaba.alpha)
    ELSE HsvDir(oklaba.lightness, c, D(oklaba.a, c), D(oklaba.b, c),
                HueOf(oklaba.a, oklaba.b), oklaba.alpha)

\* From<Oklaba> for Okhsva
Okhsva_from_Oklaba(oklaba) ==
    HsvChroma(oklaba, SqrtQ(Half, M(oklaba.a, oklaba.a) + M(oklaba.b, oklaba.b)))

\* Okhsva to Oklaba and back
RoundTripOf(lab) == [lab |-> lab, back |-> Okhsva_from_Oklaba(lab)]

OkhsvRoundTrip(okhsv) == RoundTripOf(Oklaba_from_Okhsva(okhsv))

-----------------------------------------------------------------------------
(* app.rs: the closure gamut_clip of App::calculate_fallbacks.             *)

\* (a - b).abs() > 0.003; false when a is NaN
Differs(a, b) == a # NaN /\ Abs(a - b) > Threshold

FallbackOf(color, clipped) ==
    [colour |-> clipped,
     is_fallback |-> \/ Differs(clipped.red, color.red)
                     \/ Differs(clipped.green, color.green)
                     \/ Differs(clipped.blue, color.blue)]

\* the closure with the test of the picker mode left out
FallbackClipped(is_oklch, color) ==
    FallbackOf(color, gamut_clip_preserve_chroma(color))

\* the fallback of one colour and its is_fallback flag
Fallback(is_oklch, color) ==
    IF is_oklch
    THEN FallbackOf(color, gamut_clip_preserve_chroma(color))
    ELSE [colour |-> clamp_rgba(color), is_fallback |-> FALSE]

\* egui::Color32::from_rgb of the 8-bit sRGB channels of a fallback
Color32_from_fallback(color_fallback) ==
    to_u8_array_no_alpha(Srgba_from_LinearRgba(color_fallback))

\* the struct stored in self.fallbacks
Fallbacks(cur, prev) ==
    [cur |-> cur.colour, is_cur_fallback |-> cur.is_fallback,
     prev |-> prev.colour, is_prev_fallback |-> prev.is_fallback,
     cur_egui |-> Color32_from_fallback(cur.colour)]

\* App::calculate_fallbacks
calculate_fallbacks(is_oklch, color_rgba, prev_color_rgba) ==
    Only({Fallbacks(cur, prev) : cur \in {Fallback(is_oklch, color_rgba)},
                                 prev \in {Fallback(is_oklch, prev_color_rgba)}})

-----------------------------------------------------------------------------
(* gamut_clip_preserve_chroma and clamp_rgba applied to sampled colours.   *)

\* samples per unit of a colour channel
ClipSteps == 4

\* a channel just outside the gamut: -0.002
JustBelow == -(One(Half) \div 500)

\* channel values from -0.5 to 1.25, in and out of [0, 1].  Six decimals do
\* not resolve the hue of a colour of very small chroma next to white (the
\* denominators of the Halley steps vanish), so the value just outside the
\* gamut is taken below 0 and not above 1.
ChannelGrid ==
    {(k * One(Half)) \div ClipSteps : k \in -(ClipSteps \div 2) .. (ClipSteps + 1)}
        \cup {JustBelow, One(Half)}

\* alpha values; the raw formats parse an alpha above 1
AlphaGrid == {One(Half) \div 2, One(Half), (3 * One(Half)) \div 2}

Colours == {LinearRgba(r, g, b, al) :
                r \in ChannelGrid, g \in ChannelGrid, b \in ChannelGrid, al \in AlphaGrid}

ClipTrace(rgba, g) ==
    [fast |-> FALSE, out |-> gamut_clip_preserve_chroma(rgba),
     t |-> g.t, laba |-> g.laba,
     clipped |-> IF IsNum(g.t) THEN ClippedOklaba(rgba, g)
                 ELSE Oklaba(NaN, NaN, NaN, rgba.alpha)]

\* what a call of gamut_clip_preserve_chroma computed: the value returned
\* and, on the slow path, t and the Oklab points before and after clipping
ClipRun(rgba) ==
    IF InGamut(rgba)
    THEN [fast |-> TRUE, out |-> gamut_clip_preserve_chroma(rgba)]
    ELSE ClipTrace(rgba, ClipGeometry(rgba))

CallClip == Idle /\ \E rgba \in Colours :
    Call("gamut_clip_preserve_chroma", rgba, ClipRun(rgba))

CallClamp == Idle /\ \E rgba \in Colours :
    Call("clamp_rgba", rgba, clamp_rgba(rgba))

\* the current colours: the sampled colours that are opaque
CurColours == {rgba \in Colours : rgba.alpha = One(Half)}

\* the previous colours: a grey in the gamut and a yellow out of it
PrevColours ==
    {LinearRgba(One(Half) \div 2, One(Half) \div 2, b, One(Half)) :
        b \in {-(One(Half) \div 2), One(Half) \div 2}}

CallFallback ==
    Idle /\ \E rgba \in CurColours : \E prev \in PrevColours : \E is_oklch \in BOOLEAN :
        Call("calculate_fallbacks",
             [is_oklch |-> is_oklch, color |-> rgba, prev_color |-> prev],
             calculate_fallbacks(is_oklch, rgba, prev))

NextClip == \/ CallClip
            \/ CallClamp
            \/ CallFallback
            \/ Return

SpecClip == InitIdle /\ [][NextClip]_vars

-----------------------------------------------------------------------------
(* The Okhsv conversion applied to sampled colours.                        *)

HueSteps == 12

\* hues of 0, 30, 60, ... degrees
HsvHues == {k * (30 * One(Half)) : k \in 0 .. (HueSteps - 1)}

HsvSteps == 4

HsvGrid == {(k * One(Half)) \div HsvSteps : k \in 0 .. HsvSteps}

HsvColours == {Okhsva(hh, s, v, al) :
                   hh \in HsvHues, s \in HsvGrid, v \in HsvGrid,
                   al \in {One(Half) \div 2, One(Half)}}

\* a and b of the sampled Oklab points
LabChromas == {-(One(Half) \div 10), 0, One(Half) \div 10}

LabColours == {Oklaba(l, a, b, al) :
                   l \in HsvGrid, a \in LabChromas, b \in LabChromas,
                   al \in {One(Half) \div 2, One(Half)}}

\* sampled cusps (l_cusp, c_cusp)
Cusps == {<<l, c>> : l \in HsvGrid, c \in {0, One(Half) \div 10}}

CallOklabaFromOkhsva == Idle /\ \E okhsv \in HsvColours :
    Call("Oklaba::from(Okhsva)", okhsv, OkhsvaRun(okhsv))

CallOkhsvaFromOklaba == Idle /\ \E oklaba \in LabColours :
    Call("Okhsva::from(Oklaba)", oklaba, Okhsva_from_Oklaba(oklaba))

CallRoundTrip == Idle /\ \E okhsv \in HsvColours :
    Call("Okhsva round trip", okhsv, OkhsvRoundTrip(okhsv))

CallToSt == Idle /\ \E cusp \in Cusps : Call("to_st", cusp, to_st(cusp))

NextHsv == \/ CallOklabaFromOkhsva
           \/ CallOkhsvaFromOklaba
           \/ CallRoundTrip
           \/ CallToSt
           \/ Return

SpecHsv == InitIdle /\ [][NextHsv]_vars

-----------------------------------------------------------------------------
(* app.rs: the button area of the window.  One step is one frame of        *)
(* App::update_button_area, a change of the colour, or a change of focus.  *)

AppColours == {LinearRgba(0, 0, 0, One(Half)),
               LinearRgba(One(Half), 0, 0, One(Half)),
               LinearRgba(One(Half) \div 2, One(Half) \div 2, One(Half), One(Half) \div 2)}

AppFormats == {"Hex", "Oklch"}

\* the text of a colour: the arguments format_color turns into a string
format_color(fallback, format, use_alpha) ==
    [fallback |-> fallback, format |-> format, use_alpha |-> use_alpha]

\* App::hotkey
hotkey(text_input_focused, command, key_pressed) ==
    (~text_input_focused \/ command) /\ key_pressed

NoFrame == [clicked |-> FALSE, done |-> FALSE, quit |-> FALSE, copy |-> FALSE]

InitApp ==
    /\ pc = "idle" /\ fn = "none" /\ arg = 0 /\ ret = 0
    /\ stdout = <<>>
    /\ conn = NoConn
    /\ \E wasm32 \in BOOLEAN, cur \in AppColours, format \in AppFormats,
          use_alpha \in BOOLEAN :
          app = [open |-> TRUE, wasm32 |-> wasm32, cur |-> cur, format |-> format,
                 use_alpha |-> use_alpha, text_input_focused |-> FALSE,
                 clipboard |-> <<>>, copied_notice |-> FALSE, frame |-> NoFrame]

\* the native branch with the tests exchanged: quit is tested first
NativeButtonsQuitFirst(clicked, done, quit) ==
    IF quit
    THEN /\ app' = [app EXCEPT !.open = FALSE,
                               !.frame = [NoFrame EXCEPT !.clicked = clicked,
                                                         !.done = done, !.quit = quit]]
         /\ stdout' = stdout
    ELSE /\ app' = [app EXCEPT !.open = ~(clicked \/ done),
                               !.frame = [NoFrame EXCEPT !.clicked = clicked,
                                                         !.done = done]]
         /\ stdout' = IF clicked \/ done
                      THEN Append(stdout, format_color(app.cur, app.format, app.use_alpha))
                      ELSE stdout

\* the native branch: println! and ViewportCommand::Close
NativeButtons(clicked, done, quit) ==
    IF clicked \/ done
    THEN /\ stdout' = Append(stdout, format_color(app.cur, app.format, app.use_alpha))
         /\ app' = [app EXCEPT !.open = FALSE,
                               !.frame = [NoFrame EXCEPT !.clicked = clicked,
                                                         !.done = done, !.quit = quit]]
    ELSE /\ stdout' = stdout
         /\ app' = [app EXCEPT !.open = ~quit,
                               !.frame = [NoFrame EXCEPT !.quit = quit]]

\* the wasm32 branch: copy to the clipboard
WasmButtons(clicked, copy) ==
    /\ stdout' = stdout
    /\ app' = IF clicked \/ copy
              THEN [app EXCEPT !.clipboard = <<format_color(app.cur, app.format,
                                                            app.use_alpha)>>,
                               !.copied_notice = TRUE,
                               !.frame = [NoFrame EXCEPT !.clicked = clicked,
                                                         !.copy = copy]]
              ELSE [app EXCEPT !.frame = NoFrame]

\* one frame of the button: the response of the button and the keys pressed
ButtonArea(clicked, key_c, key_d, key_q, command) ==
    /\ app.open
    /\ IF app.wasm32
       THEN WasmButtons(clicked, hotkey(app.text_input_focused, command, key_c))
       ELSE NativeButtons(clicked, hotkey(app.text_input_focused, command, key_d),
                          hotkey(app.text_input_focused, command, key_q))
    /\ UNCHANGED <<pc, fn, arg, ret, conn>>

Frame == \E clicked \in BOOLEAN, key_c \in BOOLEAN, key_d \in BOOLEAN,
            key_q \in BOOLEAN, command \in BOOLEAN :
             ButtonArea(clicked, key_c, key_d, key_q, command)

\* calculate_fallbacks stores the fallback of the colour being edited
ColourChanged ==
    /\ app.open
    /\ \E cur \in AppColours \ {app.cur} : app' = [app EXCEPT !.cur = cur, !.frame = NoFrame]
    /\ UNCHANGED <<pc, fn, arg, ret, stdout, conn>>

\* a text input gets or loses the focus
FocusChanged ==
    /\ app.open
    /\ app' = [app EXCEPT !.text_input_focused = ~app.text_input_focused,
                          !.frame = NoFrame]
    /\ UNCHANGED <<pc, fn, arg, ret, stdout, conn>>

NextApp == \/ Frame
           \/ ColourChanged
           \/ FocusChanged

SpecApp == InitApp /\ [][NextApp]_vars

-----------------------------------------------------------------------------
(* formats.rs: reading a colour from a string.  A string is the sequence   *)
(* of its characters; every character of the model is one byte long.       *)

None == [some |-> FALSE]

Some(v) == [some |-> TRUE, value |-> v]

\* char::is_whitespace, for the characters of the model
Whitespace == {" ", "\t", "\n"}

\* the characters [from, to] of s
Slice(s, from, to) == SubSeq(s, from, to)

\* the characters of s from the n-th on
Drop(s, n) == SubSeq(s, n + 1, Len(s))

\* the number of leading characters of s that belong to set
Span(s, set) ==
    CHOOSE n \in 0..Len(s) :
        /\ \A i \in 1..n : s[i] \in set
        /\ n < Len(s) => s[n + 1] \notin set

\* the number of trailing characters of s that belong to set
SpanEnd(s, set) ==
    CHOOSE n \in 0..Len(s) :
        /\ \A i \in (Len(s) - n + 1)..Len(s) : s[i] \in set
        /\ n < Len(s) => s[Len(s) - n] \notin set

\* str::trim
trim(s) ==
    IF Span(s, Whitespace) = Len(s) THEN <<>>
    ELSE Slice(s, Span(s, Whitespace) + 1, Len(s) - SpanEnd(s, Whitespace))

\* str::strip_prefix
strip_prefix(s, prefix) ==
    IF Len(s) >= Len(prefix) /\ Slice(s, 1, Len(prefix)) = prefix
    THEN Some(Drop(s, Len(prefix)))
    ELSE None

HexDigitValue ==
    [c \in {"0", "1", "2", "3", "4", "5", "6", "7", "8", "9",
            "a", "b", "c", "d", "e", "f", "A", "B", "C", "D", "E", "F"} |->
        CASE c = "0" -> 0 [] c = "1" -> 1 [] c = "2" -> 2 [] c = "3" -> 3
          [] c = "4" -> 4 [] c = "5" -> 5 [] c = "6" -> 6 [] c = "7" -> 7
          [] c = "8" -> 8 [] c = "9" -> 9
          [] c \in {"a", "A"} -> 10 [] c \in {"b", "B"} -> 11
          [] c \in {"c", "C"} -> 12 [] c \in {"d", "D"} -> 13
          [] c \in {"e", "E"} -> 14 [] c \in {"f", "F"} -> 15]

\* char::to_digit(16) succeeds
HexDigit == DOMAIN HexDigitValue

\* the digits of an unsigned number, as `width` hexadecimal digits
PadNibbles(digits, width) ==
    [i \in 1..width |->
        IF i <= width - Len(digits) THEN 0
        ELSE HexDigitValue[digits[i - (width - Len(digits))]]]

\* the big-endian bytes of a number given by its hexadecimal digits
BeBytes(nibbles) ==
    [i \in 1..(Len(nibbles) \div 2) |-> nibbles[2 * i - 1] * 16 + nibbles[2 * i]]

\* u16::from_str_radix(src, 16) and u32::from_str_radix(src, 16), followed by
\* to_be_bytes(): a leading '+' is accepted, a lone sign and '-' are not
from_str_radix_digits(digits, width) ==
    IF Len(digits) > width \/ \E i \in 1..Len(digits) : digits[i] \notin HexDigit
    THEN None
    ELSE Some(BeBytes(PadNibbles(digits, width)))

from_str_radix(src, width) ==
    IF Len(src) = 0 THEN None
    ELSE IF Len(src) = 1 /\ src[1] \in {"+", "-"} THEN None
    ELSE IF src[1] = "+" THEN from_str_radix_digits(Tail(src), width)
    ELSE from_str_radix_digits(src, width)

\* u8 as f32 / 255.
U8ToF32(n) == (n * One(Half) + 127) \div 255

\* Srgba::rgba_u8, as the array [red, green, blue, alpha]
Srgba_rgba_u8(r, g, b, a) == <<U8ToF32(r), U8ToF32(g), U8ToF32(b), U8ToF32(a)>>

\* Srgba::rgb_u8
Srgba_rgb_u8(r, g, b) == <<U8ToF32(r), U8ToF32(g), U8ToF32(b), One(Half)>>

\* Color::Srgba(c), Color::LinearRgba(c), Color::Oklcha(c), Color::Hsla(c)
Color(space, c) == [space |-> space, c |-> c]

\* x & 0x0F
LowNibble(x) == x % 16

\* (x & 0xF0) >> 4
HighNibble(x) == x \div 16

\* x << 4 | x, for x < 16
Twice(x) == x * 16 + x

ParseHexShort3(bytes) ==
    IF ~bytes.some THEN None
    ELSE Some(<<Srgba_rgb_u8(Twice(LowNibble(bytes.value[1])),
                             Twice(HighNibble(bytes.value[2])),
                             Twice(LowNibble(bytes.value[2]))), FALSE>>)

ParseHexShort4(bytes) ==
    IF ~bytes.some THEN None
    ELSE Some(<<Srgba_rgba_u8(Twice(HighNibble(bytes.value[1])),
                              Twice(LowNibble(bytes.value[1])),
                              Twice(HighNibble(bytes.value[2])),
                              Twice(LowNibble(bytes.value[2]))), TRUE>>)

ParseHex6(bytes) ==
    IF ~bytes.some THEN None
    ELSE Some(<<Srgba_rgb_u8(bytes.value[2], bytes.value[3], bytes.value[4]), FALSE>>)

ParseHex8(bytes) ==
    IF ~bytes.some THEN None
    ELSE Some(<<Srgba_rgba_u8(bytes.value[1], bytes.value[2], bytes.value[3],
                              bytes.value[4]), TRUE>>)

\* parse_hex: Some(<<srgba, has_alpha>>) or None
parse_hex(hex, allow_short) ==
    CASE Len(hex) = 3 /\ allow_short -> ParseHexShort3(from_str_radix(hex, 4))
      [] Len(hex) = 4 /\ allow_short -> ParseHexShort4(from_str_radix(hex, 4))
      [] Len(hex) = 6 -> ParseHex6(from_str_radix(hex, 8))
      [] Len(hex) = 8 -> ParseHex8(from_str_radix(hex, 8))
      [] OTHER -> None

\* slice::rotate_right(k)
RotateRight(parts, k) ==
    [i \in 1..Len(parts) |-> parts[((i - 1 - k) % Len(parts)) + 1]]

\* parse_color_impl, ColorFormat::Hex
ParseFormatHex(stripped) ==
    IF ~stripped.some THEN None
    ELSE IF ~parse_hex(stripped.value, TRUE).some THEN None
    ELSE Some(<<Color("Srgba", parse_hex(stripped.value, TRUE).value[1]), TRUE>>)

\* the closure of ColorFormat::HexLiteral: read as ARGB instead of RGBA
HexLiteralOf(c, has_alpha) ==
    <<Color("Srgba", IF has_alpha THEN RotateRight(c, 3) ELSE c), has_alpha>>

\* parse_color_impl, ColorFormat::HexLiteral
ParseFormatHexLiteral(stripped) ==
    IF ~stripped.some THEN None
    ELSE IF ~parse_hex(stripped.value, FALSE).some THEN None
    ELSE Some(HexLiteralOf(parse_hex(stripped.value, FALSE).value[1],
                           parse_hex(stripped.value, FALSE).value[2]))

\* the result of a winnow parser: Err(Backtrack) or the value and the input left
Fail == [ok |-> FALSE]

Ok(value, rest) == [ok |-> TRUE, value |-> value, rest |-> rest]

\* a parser followed by what is done with its value and the input it left:
\* the `?` of a parser that gave Err
Bind(result, F(_, _)) == Only({IF r.ok THEN F(r.value, r.rest) ELSE Fail : r \in {result}})

\* Parser::parse: the parser must succeed and consume all of its input
Complete(result) ==
    Only({IF r.ok /\ r.rest = <<>> THEN Some(r.value) ELSE None : r \in {result}})

\* Parser::map to a value that does not depend on the value parsed
MapValue(result, value) == Bind(result, LAMBDA v, rest : Ok(value, rest))

Digit == {"0", "1", "2", "3", "4", "5", "6", "7", "8", "9"}

\* the characters of winnow::ascii::space0 and space1
Space == {" ", "\t"}

\* a literal such as "rgb" or '('
literal(input, text) ==
    IF Len(input) >= Len(text) /\ Slice(input, 1, Len(text)) = text
    THEN Ok(text, Drop(input, Len(text)))
    ELSE Fail

\* winnow::ascii::space0
space0(input) == Let(Span(input, Space), LAMBDA n : Ok(n, Drop(input, n)))

\* winnow::ascii::space1
space1(input) == Let(Span(input, Space), LAMBDA n : IF n = 0 THEN Fail ELSE Ok(n, Drop(input, n)))

\* (space0, c, space0)
Separator(input, c) ==
    Bind(space0(input), LAMBDA n, r1 :
        Bind(literal(r1, <<c>>), LAMBDA t, r2 : space0(r2)))

\* the value of the first n of a string of decimal digits
RECURSIVE DecValue(_, _)
DecValue(digits, n) ==
    IF n = 0 THEN 0 ELSE 10 * DecValue(digits, n - 1) + HexDigitValue[digits[n]]

\* the value of the digits from the i-th on, the i-th counting unit
RECURSIVE FracValue(_, _, _)
FracValue(digits, i, unit) ==
    IF i > Len(digits) \/ unit = 0 THEN 0
    ELSE HexDigitValue[digits[i]] * unit + FracValue(digits, i + 1, unit \div 10)

\* after digit1: opt(('.', digit0))
FloatFraction(input, n) ==
    IF Len(input) > n /\ input[n + 1] = "."
    THEN n + 1 + Span(Drop(input, n + 1), Digit)
    ELSE n

\* ('.', digit1)
FloatPoint(input) ==
    IF Len(input) > 0 /\ input[1] = "."
    THEN Let(Span(Drop(input, 1), Digit), LAMBDA n : IF n > 0 THEN 1 + n ELSE 0)
    ELSE 0

\* the length of the text js_float_parser takes: digit1 with an optional '.'
\* and digit0, or '.' and digit1; 0 when neither alternative matches
FloatLength(input) ==
    Let(Span(input, Digit),
        LAMBDA n : IF n > 0 THEN FloatFraction(input, n) ELSE FloatPoint(input))

\* lexical_parse_float with the format JAVASCRIPT_LITERAL, applied to the text
\* js_float_parser took: an integer part of several digits must not start
\* with a zero
LexicalFloat(text) ==
    Let(Span(text, Digit),
        LAMBDA n : IF n > 1 /\ text[1] = "0" THEN None
                   ELSE Some(DecValue(text, n) * One(Half)
                             + FracValue(text, n + 2, One(Half) \div 10)))

\* js_float_parser
js_float_parser(input) ==
    Let(FloatLength(input),
        LAMBDA n : IF n = 0 THEN Fail
                   ELSE Let(LexicalFloat(Slice(input, 1, n)),
                            LAMBDA v : IF v.some THEN Ok(v.value, Drop(input, n)) ELSE Fail))

\* str::parse::<u8> of a string of digits
ParseU8(text) ==
    Let(Drop(text, Span(text, {"0"})),
        LAMBDA digits : IF Len(digits) > 3 THEN None
                        ELSE IF DecValue(digits, Len(digits)) > 255 THEN None
                        ELSE Some(DecValue(digits, Len(digits))))

\* digit1.try_map(|s| s.parse::<u8>())
u8_parser(input) ==
    Let(Span(input, Digit),
        LAMBDA n : IF n = 0 THEN Fail
                   ELSE Let(ParseU8(Slice(input, 1, n)),
                            LAMBDA v : IF v.some THEN Ok(v.value, Drop(input, n)) ELSE Fail))

\* the element parser of the two component parsers
Component(is_u8, input) == IF is_u8 THEN u8_parser(input) ELSE js_float_parser(input)

\* the separator and the element that may follow the elements parsed
NextComponent(is_u8, input) ==
    Only({IF r.ok THEN Component(is_u8, r.rest) ELSE Fail : r \in {Separator(input, ",")}})

\* separated(3..=4, element, (space0, ',', space0)), after its first element:
\* a separator or an element that fails ends the list where the separator began
RECURSIVE SeparatedLoop(_, _, _)
SeparatedLoop(is_u8, parts, input) ==
    IF Len(parts) = 4 THEN Ok(parts, input)
    ELSE Only({IF next.ok
               THEN SeparatedLoop(is_u8, Append(parts, next.value), next.rest)
               ELSE IF Len(parts) < 3 THEN Fail ELSE Ok(parts, input) :
                   next \in {NextComponent(is_u8, input)}})

separated(is_u8, input) ==
    Bind(Component(is_u8, input), LAMBDA v, rest : SeparatedLoop(is_u8, <<v>>, rest))

\* C::from_f32_array_no_alpha and C::from_f32_array, with the flags exchanged
ComponentsOfExchanged(space, parts) ==
    IF Len(parts) = 3
    THEN <<Color(space, Append(parts, One(Half))), TRUE>>
    ELSE <<Color(space, parts), FALSE>>

\* C::from_f32_array_no_alpha and C::from_f32_array
ComponentsOf(space, parts) ==
    IF Len(parts) = 3
    THEN <<Color(space, Append(parts, One(Half))), FALSE>>
    ELSE <<Color(space, parts), TRUE>>

\* color_components_parser::<C>
color_components_parser(space, input) ==
    Bind(separated(FALSE, input), LAMBDA parts, rest : Ok(ComponentsOf(space, parts), rest))

\* C::from_u8_array_no_alpha and C::from_u8_array
ComponentsU8Of(space, parts) ==
    IF Len(parts) = 3
    THEN <<Color(space, Srgba_rgb_u8(parts[1], parts[2], parts[3])), FALSE>>
    ELSE <<Color(space, Srgba_rgba_u8(parts[1], parts[2], parts[3], parts[4])), TRUE>>

\* color_components_u8_parser::<C>
color_components_u8_parser(space, input) ==
    Bind(separated(TRUE, input), LAMBDA parts, rest : Ok(ComponentsU8Of(space, parts), rest))

\* CssNum::Num(n) and CssNum::Percentage(CssPercentage(n))
CssNum(n, percentage) == [n |-> n, percentage |-> percentage]

\* x / k for an integer k, rounded to nearest
DivByInt(x, k) == (x + (k \div 2)) \div k

\* f32::round, for x >= 0
Round(x) == ((x + (One(Half) \div 2)) \div One(Half)) * One(Half)

\* CssNum::apply_percent_max and CssPercentage::apply_percent_max
apply_percent_max(v, max) == IF v.percentage THEN M(DivByInt(v.n, 100), max) ELSE v.n

\* CssNum::apply
apply(v) == apply_percent_max(v, One(Half))

\* CssNum::as_u8 and CssPercentage::as_u8
as_u8(v) == IF v.percentage THEN DivByInt(v.n, 100) * 255 ELSE DivByInt(Round(v.n), 255)

\* css_percentage_parser
css_percentage_parser(input) ==
    Bind(js_float_parser(input), LAMBDA n, r1 :
        Bind(literal(r1, <<"%">>), LAMBDA t, r2 : Ok(CssNum(n, TRUE), r2)))

\* css_legacy_num_parser
css_legacy_num_parser(input) ==
    Bind(js_float_parser(input), LAMBDA n, r1 :
        Let(literal(r1, <<"%">>), LAMBDA p :
            IF p.ok THEN Ok(CssNum(n, TRUE), p.rest) ELSE Ok(CssNum(n, FALSE), r1)))

\* alt((first, "none".map(|_| value)))
OrNone(first, input, value) ==
    Let(first, LAMBDA r : IF r.ok THEN r
                          ELSE MapValue(literal(input, <<"n", "o", "n", "e">>), value))

\* css_num_parser
css_num_parser(input) == OrNone(css_legacy_num_parser(input), input, CssNum(0, FALSE))

\* 180 / pi, the factor of f32::to_degrees
DegreesPerRadian == D(180 * One(Half), Pi)

\* alt(("deg", "rad", "grad", "turn")): the hue in degrees
HueUnit(n, input) ==
    CASE literal(input, <<"d", "e", "g">>).ok ->
            Ok(n, literal(input, <<"d", "e", "g">>).rest)
      [] literal(input, <<"r", "a", "d">>).ok ->
            Ok(M(n, DegreesPerRadian), literal(input, <<"r", "a", "d">>).rest)
      [] literal(input, <<"g", "r", "a", "d">>).ok ->
            Ok(DivByInt(n, 400) * 360, literal(input, <<"g", "r", "a", "d">>).rest)
      [] literal(input, <<"t", "u", "r", "n">>).ok ->
            Ok(n * 360, literal(input, <<"t", "u", "r", "n">>).rest)
      [] OTHER -> Ok(n, input)

\* f32::rem_euclid(360.), for x >= 0
RemEuclid360(x) == x % (360 * One(Half))

\* css_legacy_hue_parser
css_legacy_hue_parser(input) ==
    Bind(js_float_parser(input), LAMBDA n, r1 :
        Bind(HueUnit(n, r1), LAMBDA h, r2 : Ok(RemEuclid360(h), r2)))

\* css_hue_parser
css_hue_parser(input) == OrNone(css_legacy_hue_parser(input), input, 0)

\* the parsers of the components of a colour function, by name
Element(name, input) ==
    CASE name = "css_num_parser" -> css_num_parser(input)
      [] name = "css_legacy_num_parser" -> css_legacy_num_parser(input)
      [] name = "css_percentage_parser" -> css_percentage_parser(input)
      [] name = "css_hue_parser" -> css_hue_parser(input)
      [] name = "css_legacy_hue_parser" -> css_legacy_hue_parser(input)

\* terminated(parser, space1) and terminated(parser, (space0, ',', space0))
terminated(result, comma) ==
    Bind(result, LAMBDA v, r1 :
        Bind(IF comma THEN Separator(r1, ",") ELSE space1(r1), LAMBDA s, r2 : Ok(v, r2)))

\* the value of the alpha that was read: delimited(.., .., space0)
AlphaRead(separator, name) ==
    Bind(separator, LAMBDA s, r1 :
        Bind(Element(name, r1), LAMBDA v, r2 :
            Bind(space0(r2), LAMBDA n, r3 : Ok(apply(v), r3))))

\* opt(delimited((space0, c, space0), parser.map(|n| n.apply()), space0))
\*     .map(|n| n.unwrap_or(1.))
AlphaParser(name, c, input) ==
    Let(AlphaRead(Separator(input, c), name),
        LAMBDA r : IF r.ok THEN r ELSE Ok(One(Half), input))

\* css_alpha_parser
css_alpha_parser(input) == AlphaParser("css_num_parser", "/", input)

\* css_legacy_alpha_parser
css_legacy_alpha_parser(input) == AlphaParser("css_legacy_num_parser", ",", input)

\* (space0, ")")
CloseParen(input) ==
    Bind(space0(input), LAMBDA n, r1 : literal(r1, <<")">>))

\* the name of the function: "rgb".void(), or ("rgb", opt('a')).void()
NameParser(name, legacy, input) ==
    Bind(literal(input, name), LAMBDA t, r1 :
        Let(literal(r1, <<"a">>), LAMBDA a : IF legacy /\ a.ok THEN a ELSE Ok(t, r1)))

\* (name, "(", space0)
OpenParen(name, legacy, input) ==
    Bind(NameParser(name, legacy, input), LAMBDA t, r1 :
        Bind(literal(r1, <<"(">>), LAMBDA p, r2 : space0(r2)))

\* the tuple of the three components and alpha
Tuple(names, legacy, input) ==
    Bind(terminated(Element(names[1], input), legacy), LAMBDA v1, r1 :
        Bind(terminated(Element(names[2], r1), legacy), LAMBDA v2, r2 :
            Bind(Element(names[3], r2), LAMBDA v3, r3 :
                Bind(IF legacy THEN css_legacy_alpha_parser(r3) ELSE css_alpha_parser(r3),
                     LAMBDA alpha, r4 : Ok(<<v1, v2, v3, alpha>>, r4)))))

\* color_read_parser(name, inner): the four values read, before they are mapped
color_read_parser(name, names, legacy, input) ==
    Bind(OpenParen(name, legacy, input), LAMBDA n, r1 :
        Bind(Tuple(names, legacy, r1), LAMBDA v, r2 :
            Bind(CloseParen(r2), LAMBDA p, r3 : Ok(v, r3))))

\* the chroma of 100%
MaxChroma == 4 * (One(Half) \div 10)

\* oklch_parser: [lightness, chroma, hue, alpha]
OklchaOf(v) == <<apply(v[1]), apply_percent_max(v[2], MaxChroma), v[3], v[4]>>

oklch_parser(input) ==
    Bind(color_read_parser(<<"o", "k", "l", "c", "h">>,
                           <<"css_num_parser", "css_num_parser", "css_hue_parser">>,
                           FALSE, input),
         LAMBDA v, rest : Ok(OklchaOf(v), rest))

\* rgb_parser and rgb_legacy_parser: [red, green, blue, alpha]
SrgbaOf(v) == <<as_u8(v[1]), as_u8(v[2]), as_u8(v[3]), v[4]>>

rgb_parser(input) ==
    Bind(color_read_parser(<<"r", "g", "b">>,
                           <<"css_num_parser", "css_num_parser", "css_num_parser">>,
                           FALSE, input),
         LAMBDA v, rest : Ok(SrgbaOf(v), rest))

\* the closure of verify taking any three components
VerifyAny(r, g, b) == TRUE

\* the closure of verify: three percentages or three numbers
Verify(r, g, b) ==
    \/ r.percentage /\ g.percentage /\ b.percentage
    \/ ~r.percentage /\ ~g.percentage /\ ~b.percentage

rgb_legacy_parser(input) ==
    Bind(color_read_parser(<<"r", "g", "b">>,
                           <<"css_legacy_num_parser", "css_legacy_num_parser",
                             "css_legacy_num_parser">>,
                           TRUE, input),
         LAMBDA v, rest : IF Verify(v[1], v[2], v[3]) THEN Ok(SrgbaOf(v), rest) ELSE Fail)

\* hsl_parser and hsl_legacy_parser: [hue, saturation, lightness, alpha]
HslaOf(v) == <<v[1], apply(v[2]), apply(v[3]), v[4]>>

hsl_parser(input) ==
    Bind(color_read_parser(<<"h", "s", "l">>,
                           <<"css_hue_parser", "css_num_parser", "css_num_parser">>,
                           FALSE, input),
         LAMBDA v, rest : Ok(HslaOf(v), rest))

hsl_legacy_parser(input) ==
    Bind(color_read_parser(<<"h", "s", "l">>,
                           <<"css_legacy_hue_parser", "css_percentage_parser",
                             "css_percentage_parser">>,
                           TRUE, input),
         LAMBDA v, rest : Ok(HslaOf(v), rest))

\* result.or_else(|_| other), then .ok().map(|c| (c.into(), true))
CssColor(space, first, second) ==
    Let(first, LAMBDA r : IF r.some THEN Some(<<Color(space, r.value), TRUE>>)
                          ELSE Let(second, LAMBDA q :
                                   IF q.some THEN Some(<<Color(space, q.value), TRUE>>)
                                   ELSE None))

\* the variants of ColorFormat with RawRgbFloat declared before RawRgb
ColorFormatFloatFirst ==
    <<"Hex", "Rgb", "Oklch", "Hsl", "HexLiteral", "RawRgbFloat", "RawRgb",
      "RawRgbLinear", "RawOklch">>

\* the variants of ColorFormat, in the order of their declaration
ColorFormat ==
    <<"Hex", "Rgb", "Oklch", "Hsl", "HexLiteral", "RawRgb", "RawRgbFloat",
      "RawRgbLinear", "RawOklch">>

\* ColorFormat::is_auto_detectable
is_auto_detectable(format) ==
    format \in {"Hex", "Rgb", "Oklch", "Hsl", "HexLiteral", "RawRgb", "RawRgbFloat"}

\* parse_color_impl: Some(<<colour, use_alpha>>) or None
parse_color_impl(s, input_format) ==
    CASE input_format = "Hex" -> ParseFormatHex(strip_prefix(s, <<"#">>))
      [] input_format = "Oklch" -> CssColor("Oklcha", Complete(oklch_parser(s)), None)
      [] input_format = "Rgb" ->
            CssColor("Srgba", Complete(rgb_parser(s)), Complete(rgb_legacy_parser(s)))
      [] input_format = "Hsl" ->
            CssColor("Hsla", Complete(hsl_parser(s)), Complete(hsl_legacy_parser(s)))
      [] input_format = "HexLiteral" -> ParseFormatHexLiteral(strip_prefix(s, <<"0", "x">>))
      [] input_format = "RawRgb" -> Complete(color_components_u8_parser("Srgba", s))
      [] input_format = "RawRgbFloat" -> Complete(color_components_parser("Srgba", s))
      [] input_format = "RawRgbLinear" ->
            Complete(color_components_parser("LinearRgba", s))
      [] input_format = "RawOklch" -> Complete(color_components_parser("Oklcha", s))

\* parse_color
parse_color(s, input_format) ==
    Let(trim(s), LAMBDA trimmed : parse_color_impl(trimmed, input_format))

\* UNKNOWN_FORMAT_CANDIDATES
UNKNOWN_FORMAT_CANDIDATES == SelectSeq(ColorFormat, is_auto_detectable)

\* the loop of parse_color_unknown_format: Some(<<colour, format, use_alpha>>)
RECURSIVE FirstAccepted(_, _, _)
FirstAccepted(s, formats, i) ==
    IF i > Len(formats) THEN None
    ELSE Only({IF r.some THEN Some(<<r.value[1], formats[i], r.value[2]>>)
               ELSE FirstAccepted(s, formats, i + 1) :
                   r \in {parse_color_impl(s, formats[i])}})

\* parse_color_unknown_format
parse_color_unknown_format(s) ==
    Let(trim(s), LAMBDA trimmed : FirstAccepted(trimmed, UNKNOWN_FORMAT_CANDIDATES, 1))

-----------------------------------------------------------------------------
(* The strings given to the readers of formats.rs.                         *)

MaxHexLen == 9

MaxParts == 5

\* s between a space and a newline
Padded(s) == <<" ">> \o s \o <<"\n">>

\* n times the digit d, the p-th of them replaced by c (p = 0: none)
HexBody(n, d, p, c) == [i \in 1..n |-> IF i = p THEN c ELSE d]

HexBodies ==
    {HexBody(n, d, 0, d) : n \in 0..MaxHexLen, d \in {"a", "C"}}
      \cup {HexBody(n, "a", p, c) :
                n \in 1..MaxHexLen, p \in 1..MaxHexLen, c \in {"+", "-", "g", "F", "0", " "}}

\* with '#', with '0x', with '+' behind them, and with no prefix
HexInputs ==
    {prefix \o body : prefix \in {<<>>, <<"#">>, <<"0", "x">>}, body \in HexBodies}
      \cup {Padded(<<"#">> \o HexBody(n, "b", 0, "b")) : n \in {3, 5}}
      \cup {<<"#", "1", "2", "3">>, <<"#", "1", "2", "3", "4">>,
            <<"#", "1", "2", "3", "4", "5", "6">>,
            <<"#", "1", "2", "3", "4", "5", "6", "7", "8">>,
            <<"0", "x", "1", "2", "3", "4", "5", "6">>,
            <<"0", "x", "1", "2", "3", "4", "5", "6", "7", "8">>,
            <<"0", "X", "a", "a", "a", "a", "a", "a">>}

RawTokens ==
    {<<"0">>, <<"1">>, <<"2", "5", "5">>, <<"2", "5", "6">>, <<".", "5">>, <<"1", ".">>,
     <<"0", "1">>, <<"-", "1">>, <<"1", "e", "3">>, <<>>, <<".">>, <<"0", ".", "2", "5">>}

RawSeparators == {<<",">>, <<" ", ",", " ">>, <<" ">>, <<>>, <<"\t", ",", " ", " ">>}

\* the k components, all base but the p-th, which is token; the separators,
\* all ", " but the q-th, which is separator
RECURSIVE RawList(_, _, _, _, _, _, _)
RawList(i, k, base, p, token, q, separator) ==
    IF i > k THEN <<>>
    ELSE (IF i = p THEN token ELSE base)
           \o (IF i = k THEN <<>> ELSE IF i = q THEN separator ELSE <<",", " ">>)
           \o RawList(i + 1, k, base, p, token, q, separator)

RawInputs ==
    {RawList(1, k, base, p, token, q, separator) :
        k \in 1..MaxParts, base \in {<<"0", ".", "5">>, <<"1">>}, p \in {1, 3},
        token \in RawTokens, q \in {0, 2}, separator \in RawSeparators}
      \cup {Padded(RawList(1, k, <<"1">>, 0, <<>>, 0, <<>>)) : k \in 2..MaxParts}

CssNames ==
    {<<"r", "g", "b">>, <<"r", "g", "b", "a">>, <<"h", "s", "l">>, <<"h", "s", "l", "a">>,
     <<"o", "k", "l", "c", "h">>}

CssTokens ==
    {<<"1">>, <<"5", "0", "%">>, <<"n", "o", "n", "e">>, <<"9", "0", "d", "e", "g">>,
     <<"x">>}

\* three components, at most one of them neither a number nor a percentage
CssTriples ==
    {t \in CssTokens \X CssTokens \X CssTokens :
        Cardinality({i \in 1..3 : t[i] \notin {<<"1">>, <<"5", "0", "%">>}}) <= 1}

\* the separators after the first and after the second component
CssSeparators ==
    {<<<<" ">>, <<" ">>>>, <<<<",", " ">>, <<",", " ">>>>, <<<<",">>, <<" ", ",">>>>,
     <<<<" ">>, <<",", " ">>>>}

CssAlphas ==
    {<<>>, <<" ", "/", " ", ".", "5">>, <<",", " ", ".", "5">>, <<",", "5", "0", "%", " ">>}

CssInputs ==
    {name \o <<"(">> \o t[1] \o sep[1] \o t[2] \o sep[2] \o t[3] \o alpha \o <<")">> :
        name \in CssNames, t \in CssTriples, sep \in CssSeparators, alpha \in CssAlphas}
      \cup {Padded(<<"r", "g", "b", "(", " ", "1", " ", "2", " ", "3", " ", ")">>),
            <<"r", "g", "b", "(", "1", " ", "2", ")">>,
            <<"h", "s", "l", "(", "1", "t", "u", "r", "n", " ", "1", " ", "1", ")">>,
            <<"h", "s", "l", "(", "1", "r", "a", "d", ",", "1", "%", ",", "1", "%", ")">>,
            <<"h", "s", "l", "(", "5", "g", "r", "a", "d", " ", "1", " ", "1", ")">>}

Inputs == HexInputs \cup RawInputs \cup CssInputs

Formats == {ColorFormat[i] : i \in DOMAIN ColorFormat}

CallParseColor ==
    Idle /\ \E s \in Inputs, input_format \in Formats :
               Call("parse_color", [s |-> s, input_format |-> input_format],
                    parse_color(s, input_format))

CallParseColorUnknownFormat ==
    Idle /\ \E s \in Inputs :
               Call("parse_color_unknown_format", [s |-> s],
                    parse_color_unknown_format(s))

NextParse == \/ CallParseColor
             \/ CallParseColorUnknownFormat
             \/ Return

SpecParse == InitIdle /\ [][NextParse]_vars

-----------------------------------------------------------------------------
(* bevy_color: the conversions of a parsed Color to Srgba and LinearRgba.  *)

\* f32::to_radians of an angle of 0 to 90 degrees
to_radians(degrees) == D(M(degrees, Pi), 180 * One(Half))

\* one factor 1 - x^2 / k * (...) of a Taylor series in Horner form
HornerStep(x2, k, inner) == Let(inner, LAMBDA v : One(Half) - DivByInt(M(x2, v), k))

\* cos x from x^2, for 0 <= x <= pi/2, to the term in x^12
CosSeries(x2) ==
    HornerStep(x2, 2, HornerStep(x2, 12, HornerStep(x2, 30,
        HornerStep(x2, 56, HornerStep(x2, 90, HornerStep(x2, 132, One(Half)))))))

\* sin x for 0 <= x <= pi/2, to the term in x^11
SinSeries(x, x2) ==
    Let(HornerStep(x2, 6, HornerStep(x2, 20, HornerStep(x2, 42,
            HornerStep(x2, 72, HornerStep(x2, 110, One(Half)))))),
        LAMBDA v : M(x, v))

Quadrant(degrees) == (degrees % (360 * One(Half))) \div (90 * One(Half))

\* cos and sin of the angle left within its quadrant, as <<cos, sin>>
CosSinInQuadrant(degrees) ==
    Let(to_radians(degrees % (90 * One(Half))), LAMBDA x :
        Let(M(x, x), LAMBDA x2 : <<CosSeries(x2), SinSeries(x, x2)>>))

\* <<cos, sin>> of hue.to_radians()
CosSin(degrees) ==
    Let(CosSinInQuadrant(degrees), LAMBDA cs :
        CASE Quadrant(degrees) = 0 -> <<cs[1], cs[2]>>
          [] Quadrant(degrees) = 1 -> <<-cs[2], cs[1]>>
          [] Quadrant(degrees) = 2 -> <<-cs[1], -cs[2]>>
          [] Quadrant(degrees) = 3 -> <<cs[2], -cs[1]>>)

\* Oklaba::from(Oklcha), of the components <<lightness, chroma, hue, alpha>>
Oklaba_from_Oklcha(c) ==
    Let(CosSin(c[3]), LAMBDA cs : Oklaba(c[1], M(c[2], cs[1]), M(c[2], cs[2]), c[4]))

\* the match of Srgba::from(Hwba) on the sextant i of the hue
HwbaSextant(i, v, n, w, alpha) ==
    CASE i = 0 -> Srgba(v, n, w, alpha)
      [] i = 1 -> Srgba(n, v, w, alpha)
      [] i = 2 -> Srgba(w, v, n, alpha)
      [] i = 3 -> Srgba(w, n, v, alpha)
      [] i = 4 -> Srgba(n, w, v, alpha)
      [] i = 5 -> Srgba(v, w, n, alpha)

\* Srgba::from(Hwba) from h = (hue % 360.) / 60., w = whiteness and
\* v = 1. - blackness; i = h.floor() as u8, f = h - h.floor()
Srgba_from_hwv(h, w, v, alpha) ==
    Let(h \div One(Half), LAMBDA floor :
        Let(Clamp(floor, 0, 255), LAMBDA i :
            Let(IF i % 2 = 0 THEN h - floor * One(Half)
                ELSE One(Half) - (h - floor * One(Half)),
                LAMBDA f : HwbaSextant(i, v, w + M(f, v - w), w, alpha))))

\* hue % 360. of f32: the sign is the sign of hue
Fmod360(hue) == Sgn(hue) * (Abs(hue) % (360 * One(Half)))

\* Srgba::from(Hsva), through Hwba: whiteness = (1 - s) * v, blackness = 1 - v
Srgba_from_Hsva(hue, saturation, value, alpha) ==
    Srgba_from_hwv(D(Fmod360(hue), 60 * One(Half)),
                   M(One(Half) - saturation, value), value, alpha)

\* the saturation of Hsva::from(Hsla)
HsvaSaturation(lightness, value) ==
    IF value = 0 THEN 0 ELSE 2 * (One(Half) - D(lightness, value))

\* Srgba::from(Hsla), of the components <<hue, saturation, lightness, alpha>>
Srgba_from_Hsla(c) ==
    Let(c[3] + M(c[2], Min(c[3], One(Half) - c[3])), LAMBDA value :
        Let(HsvaSaturation(c[3], value), LAMBDA saturation :
            Srgba_from_Hsva(c[1], saturation, value, c[4])))

\* LinearRgba::from(Color)
LinearRgba_from_Color(color) ==
    CASE color.space = "LinearRgba" ->
            LinearRgba(color.c[1], color.c[2], color.c[3], color.c[4])
      [] color.space = "Srgba" ->
            LinearRgba_from_Srgba(Srgba(color.c[1], color.c[2], color.c[3], color.c[4]))
      [] color.space = "Hsla" ->
            Let(Srgba_from_Hsla(color.c), LAMBDA srgba : LinearRgba_from_Srgba(srgba))
      [] color.space = "Oklcha" ->
            Let(Oklaba_from_Oklcha(color.c), LAMBDA lab : LinearRgba_from_Oklaba(lab))

\* Srgba::from(Color)
Srgba_from_Color(color) ==
    CASE color.space = "Srgba" ->
            Srgba(color.c[1], color.c[2], color.c[3], color.c[4])
      [] color.space = "Hsla" -> Srgba_from_Hsla(color.c)
      [] OTHER ->
            Let(LinearRgba_from_Color(color), LAMBDA rgba : Srgba_from_LinearRgba(rgba))

\* Color::from(LinearRgba)
Color_from_LinearRgba(rgba) ==
    Color("LinearRgba", <<rgba.red, rgba.green, rgba.blue, rgba.alpha>>)

-----------------------------------------------------------------------------
(* cli.rs: the format names of the command line, of the Lua module and of  *)
(* the parser daemon.                                                      *)

UpperCase ==
    <<"A", "B", "C", "D", "E", "F", "G", "H", "I", "J", "K", "L", "M",
      "N", "O", "P", "Q", "R", "S", "T", "U", "V", "W", "X", "Y", "Z">>

LowerCase ==
    <<"a", "b", "c", "d", "e", "f", "g", "h", "i", "j", "k", "l", "m",
      "n", "o", "p", "q", "r", "s", "t", "u", "v", "w", "x", "y", "z">>

\* u8::to_ascii_lowercase
to_ascii_lowercase(ch) ==
    IF \E i \in DOMAIN UpperCase : UpperCase[i] = ch
    THEN LowerCase[CHOOSE i \in DOMAIN UpperCase : UpperCase[i] = ch]
    ELSE ch

\* str::eq_ignore_ascii_case
eq_ignore_ascii_case(left, right) ==
    /\ Len(left) = Len(right)
    /\ \A i \in 1..Len(left) : to_ascii_lowercase(left[i]) = to_ascii_lowercase(right[i])

\* the value names of CliColorFormat (rename_all = "snake_case"), in the
\* order of the variants
CliColorFormat ==
    <<<<"h", "e", "x">>, <<"r", "g", "b">>, <<"o", "k", "l", "c", "h">>,
     <<"h", "s", "l">>, <<"r", "a", "w", "_", "r", "g", "b">>,
     <<"r", "a", "w", "_", "r", "g", "b", "_", "f", "l", "o", "a", "t">>,
     <<"r", "a", "w", "_", "r", "g", "b", "_", "l", "i", "n", "e", "a", "r">>,
     <<"r", "a", "w", "_", "o", "k", "l", "c", "h">>>>

\* From<CliColorFormat> for ColorFormat, by the position of the variant
ColorFormat_from ==
    <<"Hex", "Rgb", "Oklch", "Hsl", "RawRgb", "RawRgbFloat", "RawRgbLinear", "RawOklch">>

\* PossibleValue::matches
matches(name, input, ignore_case) ==
    IF ignore_case THEN eq_ignore_ascii_case(name, input) ELSE name = input

\* <CliColorFormat as ValueEnum>::from_str followed by .into(): the
\* ColorFormat of the first variant whose name matches, or None for Err
from_str(input, ignore_case) ==
    IF \E i \in DOMAIN CliColorFormat : matches(CliColorFormat[i], input, ignore_case)
    THEN Some(ColorFormat_from[
             CHOOSE i \in DOMAIN CliColorFormat :
                 /\ matches(CliColorFormat[i], input, ignore_case)
                 /\ \A j \in 1..(i - 1) : ~matches(CliColorFormat[j], input, ignore_case)])
    ELSE None

-----------------------------------------------------------------------------
(* lib.rs: the Lua module.                                                 *)

\* what a Lua function returns: nil, an integer, or a runtime error raised
LuaNil == [type |-> "nil"]

LuaInteger(n) == [type |-> "integer", value |-> n]

LuaRuntimeError == [type |-> "error"]

\* a | b of two unsigned integers
RECURSIVE BitOr(_, _)
BitOr(a, b) ==
    IF a = 0 THEN b
    ELSE IF b = 0 THEN a
    ELSE (IF a % 2 = 1 \/ b % 2 = 1 THEN 1 ELSE 0) + 2 * BitOr(a \div 2, b \div 2)

\* a << n of a u8 widened to u32, n <= 16: no bit is shifted out
Shl(a, n) == a * 2 ^ n

\* (r as u32) << 16 | (g as u32) << 8 | b as u32
Packed(u8) == BitOr(BitOr(Shl(u8[1], 16), Shl(u8[2], 8)), u8[3])

\* lua::gamut_clip that leaves every colour as it is
gamut_clip_skipped(color) == color

\* lua::gamut_clip
gamut_clip(color) ==
    IF color.space = "Oklcha"
    THEN Let(LinearRgba_from_Color(color), LAMBDA rgba :
             Color_from_LinearRgba(gamut_clip_preserve_chroma(rgba)))
    ELSE color

\* lua::parse from the parsed colour on
PackedColor(color) ==
    Let(gamut_clip(color), LAMBDA clipped :
        Let(Srgba_from_Color(clipped), LAMBDA srgb :
            LuaInteger(Packed(to_u8_array_no_alpha(srgb)))))

\* lua::parse with a format given
ParseWithFormat(color, parsed_fmt) ==
    IF ~parsed_fmt.some THEN LuaRuntimeError
    ELSE Let(parse_color(color, parsed_fmt.value), LAMBDA parsed :
             IF parsed.some THEN PackedColor(parsed.value[1]) ELSE LuaNil)

\* lua::parse; fmt is None or Some(name)
parse(color, fmt) ==
    IF fmt.some
    THEN Let(from_str(fmt.value, TRUE), LAMBDA parsed_fmt :
             ParseWithFormat(color, parsed_fmt))
    ELSE Let(parse_color_unknown_format(color), LAMBDA parsed :
             IF parsed.some THEN PackedColor(parsed.value[1]) ELSE LuaNil)

-----------------------------------------------------------------------------
(* The Lua module's parse applied to sampled colour texts and format       *)
(* names.                                                                  *)

\* colour texts of every format, well-formed and not
ColourTexts ==
    {<<"#", "f", "f", "f">>, <<"#", "1", "2", "3", "4">>,
     <<"#", "1", "2", "3", "4", "5", "6">>,
     <<"#", "1", "2", "3", "4", "5", "6", "7", "8">>, <<"#", "+", "a", "a">>,
     <<"#", "g", "g", "g">>, <<"f", "f", "f">>, <<" ", "#", "a", "b", "c", "\n">>,
     <<"0", "x", "1", "2", "3", "4", "5", "6">>, <<"#", "1", "a", "2", "b", "3", "c">>,
     <<"r", "g", "b", "(", "1", " ", "2", " ", "3", ")">>,
     <<"r", "g", "b", "(", "2", "5", "5", ",", " ", "1", "2", "8", ",", " ", "0", ")">>,
     <<"r", "g", "b", "(", "5", "0", "%", " ", "0", "%", " ", "1", "0", "0", "%", ")">>,
     <<"r", "g", "b", "(", "1", " ", "2", ")">>,
     <<"r", "g", "b", "a", "(", "2", "5", "5", " ", "0", " ", "0", " ", "/", " ", ".", "5", ")">>,
     <<"h", "s", "l", "(", "2", "1", "0", ",", " ", "5", "0", "%", ",", " ", "2", "5", "%", ")">>,
     <<"h", "s", "l", "(", "9", "0", "d", "e", "g", " ", "5", "0", "%", " ", "5", "0", "%", ")">>,
     <<"h", "s", "l", "(", "1", "t", "u", "r", "n", " ", "1", " ", "1", ")">>,
     <<"o", "k", "l", "c", "h", "(", "5", "0", "%", " ", "5", "0", "%", " ", "9", "0", "d", "e", "g", ")">>,
     <<"o", "k", "l", "c", "h", "(", "0", ".", "5", " ", "0", ".", "1", " ", "3", "0", ")">>,
     <<"o", "k", "l", "c", "h", "(", "1", " ", "1", " ", "1", ")">>,
     <<"o", "k", "l", "c", "h", "(", "1", ".", "5", " ", "0", ".", "0", "5", " ", "3", "0", ")">>,
     <<"o", "k", "l", "c", "h", "(", "0", ".", "7", " ", "0", ".", "1", "5", " ", "1", "5", "0", " ", "/", " ", ".", "5", ")">>,
     <<"o", "k", "l", "c", "h", "(", "0", " ", "0", ".", "1", " ", "3", "0", ")">>,
     <<"0", ".", "5", ",", " ", "0", ".", "2", "5", ",", " ", "0", ".", "5">>,
     <<"2", "5", "5", ",", " ", "1", "2", "8", ",", " ", "0">>,
     <<"1", ".", "5", ",", " ", "0", ".", "5", ",", " ", "0", ".", "5">>,
     <<"1", ",", " ", "2">>,
     <<"0", ".", "5", " ", "0", ".", "2", "5", " ", "0", ".", "5", " ", "0", ".", "5">>,
     <<"0", ".", "7", ",", " ", "0", ".", "3", ",", " ", "1", "5", "0">>,
     <<"0", ",", " ", "0", ".", "2", ",", " ", "0", ".", "4">>, <<>>, <<"r", "e", "d">>,
     <<"a", "u", "t", "o">>}

\* format names: the eight names, names in other letter cases, and names
\* that CliColorFormat does not have
FormatNames ==
    {<<"h", "e", "x">>, <<"r", "g", "b">>, <<"o", "k", "l", "c", "h">>,
     <<"h", "s", "l">>, <<"r", "a", "w", "_", "r", "g", "b">>,
     <<"r", "a", "w", "_", "r", "g", "b", "_", "f", "l", "o", "a", "t">>,
     <<"r", "a", "w", "_", "r", "g", "b", "_", "l", "i", "n", "e", "a", "r">>,
     <<"r", "a", "w", "_", "o", "k", "l", "c", "h">>, <<"H", "E", "X">>,
     <<"R", "a", "w", "_", "O", "k", "l", "c", "h">>, <<"O", "K", "L", "C", "H">>,
     <<"h", "e", "x", "_", "l", "i", "t", "e", "r", "a", "l">>, <<"a", "u", "t", "o">>,
     <<>>, <<" ", "h", "e", "x">>, <<"r", "g", "b", "a">>}

\* the largest magnitude of a colour component that the fixed point of the
\* conversions carries: 4.0
MaxComponent == 4 * One(Half)

\* the components of the colour, a hue in degrees apart, are within the
\* range of the fixed point
InRange(color) ==
    \A i \in 1..3 :
        \/ Abs(color.c[i]) <= MaxComponent
        \/ color.space = "Hsla" /\ i = 1
        \/ color.space = "Oklcha" /\ i = 3

\* the colour read, if any, needs none of the conversions or is in range
Convertible(parsed) ==
    parsed.some => (parsed.value[1].space = "Srgba" \/ InRange(parsed.value[1]))

\* the texts that a format reads as a colour the conversions carry
LuaConvertible(color, fmt) ==
    IF ~fmt.some THEN Convertible(parse_color_unknown_format(color))
    ELSE Let(from_str(fmt.value, TRUE), LAMBDA parsed_fmt :
             parsed_fmt.some => Convertible(parse_color(color, parsed_fmt.value)))

CallLuaParse ==
    Idle /\ \E color \in ColourTexts : \E fmt \in {None} \cup {Some(f) : f \in FormatNames} :
        /\ LuaConvertible(color, fmt)
        /\ Call("parse", [color |-> color, fmt |-> fmt], parse(color, fmt))

NextLua == \/ CallLuaParse
           \/ Return

SpecLua == InitIdle /\ [][NextLua]_vars

-----------------------------------------------------------------------------
(* formats.rs: the Hex branch of format_color, as text.                    *)

HexChars ==
    <<"0", "1", "2", "3", "4", "5", "6", "7", "8", "9", "a", "b", "c", "d", "e", "f">>

\* format!("{:x}", d) of d < 16
LowerHex(d) == <<HexChars[d + 1]>>

\* format!("{:02x}", c) of a u8
LowerHex02(c) == <<HexChars[(c \div 16) + 1], HexChars[(c % 16) + 1]>>

\* the match on (is_short, arr[3]) of the Hex branch
HexText(arr, is_short) ==
    CASE is_short /\ arr[4] = 255 ->
            <<"#">> \o LowerHex(arr[1] \div 17) \o LowerHex(arr[2] \div 17)
                \o LowerHex(arr[3] \div 17)
      [] is_short /\ arr[4] # 255 ->
            <<"#">> \o LowerHex(arr[1] \div 17) \o LowerHex(arr[2] \div 17)
                \o LowerHex(arr[3] \div 17) \o LowerHex(arr[4] \div 17)
      [] ~is_short /\ arr[4] = 255 ->
            <<"#">> \o LowerHex02(arr[1]) \o LowerHex02(arr[2]) \o LowerHex02(arr[3])
      [] OTHER ->
            <<"#">> \o LowerHex02(arr[1]) \o LowerHex02(arr[2]) \o LowerHex02(arr[3])
                \o LowerHex02(arr[4])

\* format_color(fallback, ColorFormat::Hex, use_alpha); use_alpha is not read
format_color_hex(fallback) ==
    Let(to_u8_array(Srgba_from_LinearRgba(fallback)), LAMBDA arr :
        HexText(arr, \A i \in 1..4 : arr[i] % 17 = 0))

-----------------------------------------------------------------------------
(* parser_daemon.rs: handle_message.                                       *)

\* the two characters U+00BF (inverted question mark) between the parts of
\* a request and of a response
Delimiter == <<"U+00BF", "U+00BF">>

\* the index of the first ch in s from the i-th character on, or 0
RECURSIVE IndexOf(_, _, _)
IndexOf(s, ch, i) ==
    IF i > Len(s) THEN 0 ELSE IF s[i] = ch THEN i ELSE IndexOf(s, ch, i + 1)

\* str::split_once of a character: Some(<<before, after>>) or None
split_once(s, ch) ==
    Let(IndexOf(s, ch, 1), LAMBDA i :
        IF i = 0 THEN None ELSE Some(<<Slice(s, 1, i - 1), Drop(s, i)>>))

\* str::split(Delimiter): the part that starts at start, scanned up to i, and
\* the parts after it
RECURSIVE SplitFrom(_, _, _)
SplitFrom(s, start, i) ==
    IF i + 1 > Len(s) THEN <<Slice(s, start, Len(s))>>
    ELSE IF s[i] = Delimiter[1] /\ s[i + 1] = Delimiter[2]
    THEN <<Slice(s, start, i - 1)>> \o SplitFrom(s, i + 2, i + 2)
    ELSE SplitFrom(s, start, i + 1)

split(s) == SplitFrom(s, 1, 1)

\* [String]::join(Delimiter)
RECURSIVE join(_, _)
join(parts, i) ==
    IF i > Len(parts) THEN <<>>
    ELSE IF i = Len(parts) THEN parts[i]
    ELSE parts[i] \o Delimiter \o join(parts, i + 1)

\* u32::MAX in decimal digits
U32_MAX == <<"4", "2", "9", "4", "9", "6", "7", "2", "9", "5">>

\* a <= b for two strings of as many decimal digits, from the i-th digit on
RECURSIVE DigitsLeq(_, _, _)
DigitsLeq(a, b, i) ==
    \/ i > Len(a)
    \/ HexDigitValue[a[i]] < HexDigitValue[b[i]]
    \/ a[i] = b[i] /\ DigitsLeq(a, b, i + 1)

\* the digits, leading zeros apart, are a value of at most u32::MAX
FitsU32(digits) ==
    Let(Drop(digits, Span(digits, {"0"})), LAMBDA d :
        \/ Len(d) < Len(U32_MAX)
        \/ Len(d) = Len(U32_MAX) /\ DigitsLeq(d, U32_MAX, 1))

\* str::parse::<u32> is Ok: an optional '+', then one or more decimal digits
\* of a value of at most u32::MAX
parse_u32(s) ==
    Let(IF Len(s) > 0 /\ s[1] = "+" THEN Drop(s, 1) ELSE s, LAMBDA digits :
        /\ Len(digits) > 0
        /\ \A i \in 1..Len(digits) : digits[i] \in Digit
        /\ FitsU32(digits))

ERR == <<"E", "R", "R">>

\* format_result, or "ERR" for a colour that did not parse
FormatResult(parsed) ==
    IF parsed.some
    THEN Let(LinearRgba_from_Color(parsed.value[1]), LAMBDA fallback :
             format_color_hex(fallback))
    ELSE ERR

\* the response of one part
Response(fmt, color) ==
    IF fmt = <<"a", "u", "t", "o">>
    THEN FormatResult(parse_color_unknown_format(color))
    ELSE Let(from_str(fmt, TRUE), LAMBDA parsed_fmt :
             IF parsed_fmt.some THEN FormatResult(parse_color(color, parsed_fmt.value))
             ELSE ERR)

\* what handle_message returns and the lines it prints
Err(message, printed) == [ok |-> FALSE, error |-> message, printed |-> printed]

Sent(response, printed) ==
    [ok |-> TRUE, response |-> response,
     printed |-> Append(printed, "Sending response")]

\* format!("{}:{}\n", number, parts.join(Delimiter))
ResponseLine(number, parts) == number \o <<":">> \o join(parts, 1) \o <<"\n">>

\* the closure of the map with the parts in the opposite order
RECURSIVE response_parts_reversed(_, _, _, _, _)
response_parts_reversed(number, parts, i, collected, printed) ==
    IF i > Len(parts) THEN Sent(ResponseLine(number, collected), printed)
    ELSE Only({
        IF ~part.some
        THEN Err("Read didn't contain the ';' delimiter !", printed)
        ELSE IF ~parse_u32(number) THEN Err("invalid number", printed)
        ELSE response_parts_reversed(number, parts, i + 1,
                 <<Response(part.value[1], part.value[2])>> \o collected,
                 Append(printed, "Got color with format")) :
            part \in {split_once(parts[i], ";")}})

\* the closure of the map applied to the parts from the i-th on, as collect
\* drives it: the first Err ends it
RECURSIVE response_parts(_, _, _, _, _)
response_parts(number, parts, i, collected, printed) ==
    IF i > Len(parts) THEN Sent(ResponseLine(number, collected), printed)
    ELSE Only({
        IF ~part.some
        THEN Err("Read didn't contain the ';' delimiter !", printed)
        ELSE IF ~parse_u32(number) THEN Err("invalid number", printed)
        ELSE response_parts(number, parts, i + 1,
                 Append(collected, Response(part.value[1], part.value[2])),
                 Append(printed, "Got color with format")) :
            part \in {split_once(parts[i], ";")}})

\* handle_message
handle_message(srt) ==
    IF srt = <<"t", "e", "s", "t">> THEN Err("test", <<>>)
    ELSE Let(split_once(srt, ":"), LAMBDA pair :
             IF ~pair.some THEN Err("Read didn't contain the ':' delimiter !", <<>>)
             ELSE response_parts(pair.value[1], split(pair.value[2]), 1, <<>>, <<>>))

-----------------------------------------------------------------------------
(* The requests handle_message is called with.                             *)

\* the texts before the ':' of a request
RequestNumbers ==
    {<<"7">>, <<"+", "5">>, <<"4", "2", "9", "4", "9", "6", "7", "2", "9", "5">>}

\* the parts of a request: a format name, ';' and a colour, or a text without
\* the ';'
RequestParts ==
    {<<"a", "u", "t", "o", ";", "r", "g", "b", "(", "1", " ", "2", " ", "3", ")">>,
     <<"H", "S", "L", ";", "h", "s", "l", "(", "2", "1", "0", ",", " ", "5", "0", "%", ",", " ", "2", "5", "%", ")">>,
     <<"r", "a", "w", "_", "o", "k", "l", "c", "h", ";", "0", ".", "7", ",", " ", "0", ".", "1", "5", ",", " ", "1", "5", "0", ",", " ", "0", ".", "5">>,
     <<"n", "o", "p", "e", ";", "#", "f", "f", "f">>,
     <<"h", "e", "x", ";", "z", "z", "z">>, <<"h", "e", "x", "#", "f", "f", "f">>}

\* the most parts of a request
MaxRequestParts == 3

\* the lines that are not a number, ':' and parts of RequestParts
OtherLines ==
    {<<"t", "e", "s", "t">>, <<>>, <<"x">>, <<"7">>, <<"7", ":">>,
     <<"7", ":", "h", "e", "x", "#", "f", "f", "f">>,
     <<":", "h", "e", "x", ";", "#", "f", "f", "f">>,
     <<"t", "e", "s", "t", ":", "h", "e", "x", ";", "#", "f", "f", "f">>,
     <<"7", ":", "h", "e", "x", ";", "#", "f", "f", "f", "U+00BF", "h", "e", "x", ";", "#", "f", "f", "f">>,
     <<"7", ":", "h", "e", "x", ";", "#", "f", "f", "f", "U+00BF", "U+00BF">>,
     <<"-", "1", ":", "h", "e", "x", ";", "#", "f", "f", "f">>,
     <<" ", "7", ":", "h", "e", "x", ";", "#", "f", "f", "f">>,
     <<"7", " ", ":", "h", "e", "x", ";", "#", "f", "f", "f">>,
     <<"7", ":", "r", "g", "b", ";", "a", ":", "b", ";", "c">>,
     <<"7", ":", "r", "g", "b", ";", "r", "g", "b", "(", "1", " ", "2", " ", "3", ")", ";">>,
     <<"4", "2", "9", "4", "9", "6", "7", "2", "9", "6", ":", "h", "e", "x", ";", "#", "f", "f", "f">>,
     <<"x", ":", "h", "e", "x", ";", "#", "f", "f", "f", "U+00BF", "U+00BF", "a", "u", "t", "o", ";", "#", "1", "2", "3", "4">>,
     <<"7", ":", "h", "e", "x", ";", "#", "f", "f", "f">>,
     <<"8", ":", "a", "u", "t", "o", ";", "#", "1", "2", "3", "4", "U+00BF", "U+00BF", "h", "e", "x", "_", "l", "i", "t", "e", "r", "a", "l", ";", "0", "x", "1", "2", "3", "4", "5", "6">>}

\* the sequences of 1 to n elements of S
RECURSIVE SeqsUpTo(_, _)
SeqsUpTo(S, n) ==
    IF n = 0 THEN {}
    ELSE {<<x>> : x \in S} \cup
         Let(SeqsUpTo(S, n - 1), LAMBDA shorter :
             shorter \cup {Append(s, x) : s \in shorter, x \in S})

Requests == SeqsUpTo(RequestParts, MaxRequestParts)

\* the line of a request
RequestLine(number, parts) == number \o <<":">> \o join(parts, 1)

CallHandleRequest ==
    Idle /\ \E number \in RequestNumbers : \E parts \in Requests :
        Call("handle_message",
             [number |-> number, parts |-> parts, srt |-> RequestLine(number, parts)],
             handle_message(RequestLine(number, parts)))

CallHandleLine ==
    Idle /\ \E srt \in OtherLines :
        Call("handle_message", [srt |-> srt], handle_message(srt))

NextMessage == \/ CallHandleRequest
               \/ CallHandleLine
               \/ Return

SpecMessage == InitIdle /\ [][NextMessage]_vars

-----------------------------------------------------------------------------
(* parser_daemon.rs: the task of one connection.                           *)

\* the task as it is spawned: an empty buffer, nothing sent.  buffer, line
\* and read are the task's locals (read: the text the last read_line
\* appended); sent and stderr are what the task has written to the client
\* and to the standard error; eof and lines are the stream's: whether it has
\* ended, and how many times it has yielded text.
Spawned ==
    [open |-> TRUE, pos |-> "reading", buffer |-> <<>>, line |-> None, read |-> <<>>,
     sent |-> <<>>, stderr |-> <<>>, eof |-> FALSE, lines |-> 0]

\* what an iteration leaves: the task and the standard output
Iteration(c, out) == [conn |-> c, stdout |-> out]

\* the match on handle_message(line) and buffer.clear(), with a buffer that
\* is cleared only after a response
AfterMessageUncleared(c, out, buffer, result, write_ok) ==
    IF result.ok
    THEN IF write_ok
         THEN Iteration([c EXCEPT !.buffer = <<>>, !.sent = Append(@, result.response)], out)
         ELSE Iteration([c EXCEPT !.buffer = buffer, !.pos = "returned",
                                  !.stderr = Append(@, "Send failed")], out)
    ELSE Iteration([c EXCEPT !.buffer = buffer, !.stderr = Append(@, result.error)], out)

\* the match on handle_message(line) and buffer.clear(); a write_all that
\* fails returns from the task
AfterMessage(c, out, buffer, result, write_ok) ==
    IF result.ok
    THEN IF write_ok
         THEN Iteration([c EXCEPT !.buffer = <<>>, !.sent = Append(@, result.response)], out)
         ELSE Iteration([c EXCEPT !.buffer = buffer, !.pos = "returned",
                                  !.stderr = Append(@, "Send failed")], out)
    ELSE Iteration([c EXCEPT !.buffer = <<>>, !.stderr = Append(@, result.error)], out)

\* the text read_line has appended to the buffer: "Got data", strip_suffix
\* and handle_message
GotData(c, out, buffer, write_ok) ==
    IF buffer[Len(buffer)] # "\n"
    THEN Iteration([c EXCEPT !.buffer = buffer,
                             !.stderr = Append(@, "Read didn't end in newline!")],
                   Append(out, "Got data"))
    ELSE Only({AfterMessage([c EXCEPT !.line = Some(Slice(buffer, 1, Len(buffer) - 1))],
                            Append(out, "Got data") \o result.printed,
                            buffer, result, write_ok) :
               result \in {handle_message(Slice(buffer, 1, Len(buffer) - 1))}})

\* one iteration of the loop of the task.  read is what read_line returns,
\* [err |-> TRUE] or the text it appends to the buffer (none for Ok(0));
\* write_ok is whether write_all succeeds
ClientTask(c, out, read, write_ok) ==
    IF read.err
    THEN Iteration([c EXCEPT !.pos = "broken", !.stderr = Append(@, "Read failed")], out)
    ELSE IF read.text = <<>>
    THEN Iteration([c EXCEPT !.pos = "broken"],
                   Append(out, "EOF reached, disconnecting client"))
    ELSE GotData([c EXCEPT !.read = read.text], out, c.buffer \o read.text, write_ok)

-----------------------------------------------------------------------------
(* The connection of one client to the parser daemon.                      *)

\* the lines a client sends, each followed by a newline
ClientLines ==
    {<<"7", ":", "h", "e", "x", ";", "#", "f", "f", "f">>,
     <<"8", ":", "a", "u", "t", "o", ";", "#", "1", "2", "3", "4", "U+00BF", "U+00BF", "n", "o", "p", "e", ";", "x">>,
     <<"t", "e", "s", "t">>, <<"n", "o", "c", "o", "l", "o", "n">>,
     <<"7", ":", "h", "e", "x", "#", "f", "f", "f">>,
     <<"x", ":", "h", "e", "x", ";", "#", "f", "f", "f">>,
     <<"9", ":", "h", "e", "x", ";", "#", "a", "b", "c", "U+00BF", "U+00BF">>, <<>>}

\* the texts a client sends last, without a newline, before it closes
UnfinishedLines ==
    {<<"7", ":", "h", "e", "x", ";", "#", "f", "f", "f">>, <<"t", "e">>}

\* the most reads of a connection that yield text
MaxLines == 3

ReadErr == [err |-> TRUE]

ReadOk(text) == [err |-> FALSE, text |-> text]

InitDaemon == /\ pc = "idle"
              /\ fn = "none"
              /\ arg = 0
              /\ ret = 0
              /\ app = NoApp
              /\ stdout = <<>>
              /\ conn = NoConn

Reading == conn.open /\ conn.pos = "reading"

\* listener.accept() and tokio::spawn
Accept ==
    /\ ~conn.open
    /\ conn' = Spawned
    /\ stdout' = Append(stdout, "Incoming connection!")
    /\ UNCHANGED <<pc, fn, arg, ret, app>>

\* the task after an iteration in which the stream yielded text
Iterated(next, eof) ==
    /\ conn' = [next.conn EXCEPT !.lines = @ + 1, !.eof = eof]
    /\ stdout' = next.stdout
    /\ UNCHANGED <<pc, fn, arg, ret, app>>

\* read_line yields a line and its newline
ReadLine ==
    /\ Reading /\ ~conn.eof /\ conn.lines < MaxLines
    /\ \E line \in ClientLines, write_ok \in BOOLEAN :
        Iterated(ClientTask(conn, stdout, ReadOk(line \o <<"\n">>), write_ok), FALSE)

\* read_line yields the text before the end of the stream
ReadUnfinished ==
    /\ Reading /\ ~conn.eof /\ conn.lines < MaxLines
    /\ \E text \in UnfinishedLines :
        Iterated(ClientTask(conn, stdout, ReadOk(text), TRUE), TRUE)

\* read_line returns Ok(0): the stream has ended
ReadEof ==
    /\ Reading
    /\ \E next \in {ClientTask(conn, stdout, ReadOk(<<>>), TRUE)} :
        /\ conn' = next.conn
        /\ stdout' = next.stdout
    /\ UNCHANGED <<pc, fn, arg, ret, app>>

\* read_line returns an error
ReadFails ==
    /\ Reading
    /\ \E next \in {ClientTask(conn, stdout, ReadErr, TRUE)} :
        /\ conn' = next.conn
        /\ stdout' = next.stdout
    /\ UNCHANGED <<pc, fn, arg, ret, app>>

NextDaemon == \/ Accept
              \/ ReadLine
              \/ ReadUnfinished
              \/ ReadEof
              \/ ReadFails

SpecDaemon == InitDaemon /\ [][NextDaemon]_vars

-----------------------------------------------------------------------------
(* The claims about gamut clipping, checked under SpecClip.                *)

Clipped == pc = "done" /\ fn = "gamut_clip_preserve_chroma"

Clamped == pc = "done" /\ fn = "clamp_rgba"

Unit(x) == 0 <= x /\ x <= One(Half)

\* red, green and blue all lie in [0, 1]
RgbInUnit(c) == Unit(c.red) /\ Unit(c.green) /\ Unit(c.blue)

\* C1: for every input whose red, green and blue all lie in [0, 1], white
\* included, gamut_clip_preserve_chroma returns the input unchanged in all
\* four channels.
C1_InGamutUnchanged == (Clipped /\ RgbInUnit(arg)) => ret.out = arg

\* C1 witness: white with a translucent alpha came back unchanged
C1_Witness ==
    /\ Clipped /\ ret.out = arg
    /\ arg = LinearRgba(One(Half), One(Half), One(Half), One(Half) \div 2)

\* C2 as stated: whatever the input and its alpha, the alpha returned by
\* gamut_clip_preserve_chroma and by clamp_rgba is the input alpha.
C2_AlphaNeverChanges ==
    /\ Clipped => ret.out.alpha = arg.alpha
    /\ Clamped => ret.alpha = arg.alpha

\* C2 amended: the alpha returned is the input alpha whenever the input alpha
\* lies in [0, 1], and on the fast path of gamut_clip_preserve_chroma whatever
\* it is; clamp_rgba and the slow path return an alpha above 1 as 1.
C2_AlphaClamped ==
    /\ (Clipped /\ (Unit(arg.alpha) \/ RgbInUnit(arg))) => ret.out.alpha = arg.alpha
    /\ (Clipped /\ ~RgbInUnit(arg) /\ arg.alpha > One(Half)) => ret.out.alpha = One(Half)
    /\ (Clamped /\ Unit(arg.alpha)) => ret.alpha = arg.alpha
    /\ (Clamped /\ arg.alpha > One(Half)) => ret.alpha = One(Half)

\* C2 witness: an out-of-gamut colour was clipped and kept its alpha of 0.5
C2_Witness ==
    /\ Clipped /\ ~RgbInUnit(arg) /\ ret.out # arg
    /\ arg.alpha = One(Half) \div 2 /\ ret.out.alpha = arg.alpha

\* C3: for every out-of-gamut input the result of gamut_clip_preserve_chroma
\* has red, green and blue each in [0, 1].
C3_ClippedInGamut ==
    (Clipped /\ ~RgbInUnit(arg)) =>
        /\ IsNum(ret.out.red) /\ IsNum(ret.out.green) /\ IsNum(ret.out.blue)
        /\ RgbInUnit(ret.out)

\* C4 as stated: when the clipped result differs from the input by less than
\* 0.003 in every channel, gamut_clip_preserve_chroma returns the input.
C4_ShortCircuit ==
    (Clipped /\ ~ret.fast /\ IsNum(ret.t)
        /\ WithinThreshold(clamp_rgba(LinearRgba_from_Oklaba(ret.clipped)), arg))
    => ret.out = arg

\* C4 amended: gamut_clip_preserve_chroma returns the clipped value also when
\* it differs from the input by less than 0.003 in every channel; the
\* threshold only decides the flag of App::calculate_fallbacks, which is then
\* false while the fallback is still the clipped value.
C4_ClippedValueReturned ==
    /\ (Clipped /\ ~ret.fast /\ WithinThreshold(ret.out, arg)) =>
            (ret.out # arg /\ RgbInUnit(ret.out))
    /\ (pc = "done" /\ fn = "calculate_fallbacks" /\ arg.is_oklch
            /\ ~RgbInUnit(arg.color) /\ WithinThreshold(ret.cur, arg.color)) =>
            (~ret.is_cur_fallback /\ ret.cur # arg.color /\ RgbInUnit(ret.cur))

\* C4 witness: a colour just outside the gamut was clipped by less than 0.003
C4_Witness ==
    /\ Clipped /\ ~ret.fast /\ WithinThreshold(ret.out, arg)
    /\ arg.red = JustBelow /\ ret.out.red = 0 /\ ret.out.green # arg.green

\* the unit hue direction of an Oklab point; (1, 0), hue 0, when achromatic
HueDirection(lab) ==
    LET c == SqrtQ(Half, M(lab.a, lab.a) + M(lab.b, lab.b))
    IN  IF c = 0 THEN <<One(Half), 0>> ELSE <<D(lab.a, c), D(lab.b, c)>>

\* two hue directions no more than about half a degree apart
HueTol == One(Half) \div 100

SameHue(p, q) ==
    /\ Abs(HueDirection(p)[1] - HueDirection(q)[1]) <= HueTol
    /\ Abs(HueDirection(p)[2] - HueDirection(q)[2]) <= HueTol

RoundTol(t) == 2 + Abs(t) \div One(Half)

C14_IntersectionInUnit ==
    (Clipped /\ ~ret.fast) => (IsNum(ret.t) /\ 0 <= ret.t /\ ret.t <= One(Half))

-----------------------------------------------------------------------------
(* The claims about the toe pair and the Oklch <-> Oklrch conversions,     *)
(* checked under SpecToe.                                                 *)

\* the tolerance 1e-5 of the toe inverse law
Tol5 == One(HalfT) \div (10 ^ 5)

Within(r, l, tol) == r.fin /\ Abs(r.v - l) <= tol

C7_StrictlyIncreasing ==
    /\ (pc = "done" /\ fn \in {"toe pair", "toe_inv pair"}) => ret[1] < ret[2]
    /\ (pc = "done" /\ fn = "toe" /\ arg \in {0, One(HalfT)}) => ret.out = Num(arg)
    /\ (pc = "done" /\ fn = "toe_inv" /\ arg \in {0, One(HalfT)}) => ret = Num(arg)

\* C7 witness: toe applied to two neighbouring samples of [0, 1]
C7_Witness ==
    /\ pc = "done" /\ fn = "toe pair"
    /\ arg[2] = One(HalfT) /\ arg[1] = (ToeSteps - 1) * ToeUnit
    /\ ret[1] < ret[2] /\ ret[2] = One(HalfT)

\* C8: toe never returns NaN: the quantity under its square root is
\* non-negative for every L in [-0.1, 1.1].
C8_RadicandNonNegative ==
    (pc = "done" /\ fn = "toe") => (ret.radicand >= 0 /\ ret.out.fin)

\* C8 witness: toe applied to the negative end of the interval
C8_Witness ==
    pc = "done" /\ fn = "toe" /\ arg = -10 * ToeUnit /\ ret.radicand > 0 /\ ret.out.v < 0

\* C9: the conversions between Oklcha and Oklrcha change only the lightness
\* channel (through toe, respectively toe_inv): chroma, hue and alpha are the
\* input's.
C9_OnlyLightnessChanges ==
    /\ (pc = "done" /\ fn = "Oklrcha::from(Oklcha)") =>
            /\ ret.chroma = arg.chroma /\ ret.hue = arg.hue /\ ret.alpha = arg.alpha
            /\ ret.lightness_r = toe(Half, arg.lightness)
    /\ (pc = "done" /\ fn = "Oklcha::from(Oklrcha)") =>
            /\ ret.chroma = arg.chroma /\ ret.hue = arg.hue /\ ret.alpha = arg.alpha
            /\ ret.lightness = toe_inv(Half, arg.lightness_r)

\* C9 witness: a conversion that moved the lightness and nothing else
C9_Witness ==
    /\ pc = "done" /\ fn = "Oklrcha::from(Oklcha)"
    /\ arg.lightness = One(Half) \div 2 /\ ret.lightness_r # arg.lightness
    /\ arg.chroma # arg.hue /\ arg.chroma # 0 /\ arg.alpha = One(Half) \div 2
    /\ ret.chroma = arg.chroma

-----------------------------------------------------------------------------
(* The claim about the Okhsv conversion, checked under SpecHsv.            *)

Converted == pc = "done" /\ fn = "Oklaba::from(Okhsva)"

\* C10 as stated: converting an Okhsva with value 0 returns exactly
\* Oklaba(0, 0, 0, alpha), for every hue and saturation, without calling
\* find_cusp or performing any division.
C10_ZeroValueNoDivision ==
    (Converted /\ arg.value = 0) =>
        /\ ret.out = Oklaba(0, 0, 0, arg.alpha)
        /\ ret.calls = <<>>
        /\ ret.divisions = <<>>

\* C10 amended: converting an Okhsva with value 0 returns exactly
\* Oklaba(0, 0, 0, alpha), for every hue and saturation, without calling
\* find_cusp; the only division performed is hue / 360, by a constant, before
\* the value is tested.
C10_ZeroValueShortCircuit ==
    (Converted /\ arg.value = 0) =>
        /\ ret.out = Oklaba(0, 0, 0, arg.alpha)
        /\ ret.calls = <<>>
        /\ ret.divisions = <<"hue / 360.">>
        /\ ret.h = TurnOf(arg.hue)

\* C10 witness: a saturated green of value 0 and alpha 0.5 became black
C10_Witness ==
    /\ Converted /\ arg.value = 0
    /\ arg.hue = 120 * One(Half) /\ arg.saturation = One(Half)
    /\ arg.alpha = One(Half) \div 2
    /\ ret.out = Oklaba(0, 0, 0, One(Half) \div 2)

\* the tolerance 1e-3 of the Okhsv round trip
Tol3 == One(Half) \div 1000

RoundTripped == pc = "done" /\ fn = "Okhsva round trip"

ToOkhsva == pc = "done" /\ fn = "Okhsva::from(Oklaba)"

\* C11: for every Okhsva with S and V in [0, 1], S = 0 and V = 0 included,
\* converting to Oklaba and back reproduces H, S and V within 1e-3.
C11_RoundTrip ==
    RoundTripped =>
        /\ IsNum(ret.back.hue) /\ Abs(ret.back.hue - arg.hue) <= Tol3
        /\ IsNum(ret.back.saturation) /\ Abs(ret.back.saturation - arg.saturation) <= Tol3
        /\ IsNum(ret.back.value) /\ Abs(ret.back.value - arg.value) <= Tol3

\* C12: converting an achromatic Oklaba (a = 0 and b = 0) to Okhsva yields
\* saturation 0 and hue 0 with the input's alpha, whatever the lightness.
C12_AchromaticToOkhsva ==
    (ToOkhsva /\ arg.a = 0 /\ arg.b = 0) =>
        (ret.saturation = 0 /\ ret.hue = 0 /\ ret.alpha = arg.alpha)

\* C12 witness: the grey of lightness 0.5 and alpha 0.5 was converted
C12_Witness ==
    /\ ToOkhsva /\ arg = Oklaba(One(Half) \div 2, 0, 0, One(Half) \div 2)
    /\ ret.saturation = 0 /\ ret.hue = 0 /\ ret.alpha = One(Half) \div 2

\* C13: no finite input of the Okhsv conversions or of to_st reaches a
\* division by zero or produces NaN or an infinity; in particular an Oklaba
\* of lightness 0 and non-zero chroma, and a cusp with L_cusp = 1.
C13_NoNaN ==
    /\ ToOkhsva => (IsNum(ret.hue) /\ IsNum(ret.saturation) /\ IsNum(ret.value))
    /\ (pc = "done" /\ fn = "to_st") => (IsNum(ret[1]) /\ IsNum(ret[2]))

-----------------------------------------------------------------------------
(* The claim about the button area, checked under SpecApp.                 *)

\* C15: on native builds the formatted current fallback colour is printed to
\* stdout exactly when the DONE button is clicked or the 'd' hotkey fires,
\* and the window is then closed; the 'q' hotkey closes the window without
\* printing anything.  (A wasm32 build prints nothing.)
C15_PrintOnDone ==
    /\ app.wasm32 => stdout = <<>>
    /\ ~app.wasm32 =>
         /\ (stdout # <<>>) <=> (app.frame.clicked \/ app.frame.done)
         /\ (stdout # <<>>) =>
               /\ stdout = <<format_color(app.cur, app.format, app.use_alpha)>>
               /\ ~app.open
         /\ (app.frame.quit /\ ~app.frame.clicked /\ ~app.frame.done) =>
               (stdout = <<>> /\ ~app.open)

\* C15 witness: the 'd' hotkey fired in a native window whose colour had been
\* changed, and the colour was printed
C15_Witness ==
    /\ ~app.wasm32 /\ ~app.open
    /\ app.frame.done /\ ~app.frame.clicked
    /\ app.cur = LinearRgba(One(Half), 0, 0, One(Half))
    /\ app.text_input_focused
    /\ stdout = <<format_color(app.cur, app.format, app.use_alpha)>>

-----------------------------------------------------------------------------
(* The claims about reading a colour, checked under SpecParse.             *)

\* parse_color was applied with this format
ParsedAs(format) == pc = "done" /\ fn = "parse_color" /\ arg.input_format = format

\* parse_color_unknown_format was applied
Detected == pc = "done" /\ fn = "parse_color_unknown_format"

DetectionOrder == <<"Hex", "Rgb", "Oklch", "Hsl", "HexLiteral", "RawRgb", "RawRgbFloat">>

\* C16: parse_color_unknown_format returns the first format, in the order
\* Hex, Rgb, Oklch, Hsl, HexLiteral, RawRgb, RawRgbFloat, whose reader accepts
\* the input; it returns None when none of them does, it never returns
\* RawRgbLinear or RawOklch, and a result (c, f, a) is the result (c, a) of
\* parse_color(s, f).
C16_FirstAutoDetectable ==
    Detected =>
        IF ret.some
        THEN \E i \in DOMAIN DetectionOrder :
                /\ ret.value[2] = DetectionOrder[i]
                /\ ret.value[2] \notin {"RawRgbLinear", "RawOklch"}
                /\ parse_color(arg.s, DetectionOrder[i]) = Some(<<ret.value[1], ret.value[3]>>)
                /\ \A j \in 1..(i - 1) : ~parse_color(arg.s, DetectionOrder[j]).some
        ELSE \A i \in DOMAIN DetectionOrder : ~parse_color(arg.s, DetectionOrder[i]).some

\* C16 witness: an input that RawRgb and RawRgbFloat both read, detected as
\* RawRgb
C16_Witness ==
    /\ Detected /\ ret.some /\ ret.value[2] = "RawRgb"
    /\ parse_color(arg.s, "RawRgbFloat").some
    /\ parse_color(arg.s, "RawRgbLinear").some

\* every character of s is a hexadecimal digit
HexDigits(s) == \A i \in 1..Len(s) : s[i] \in HexDigit

\* the byte written by the two digits of s from the i-th on
ByteAt(s, i) == 16 * HexDigitValue[s[i]] + HexDigitValue[s[i + 1]]

\* the colour of '#' and 3 or 4 digits: each digit d is the byte 17 * d
ShortForm(t, c) ==
    /\ \A i \in 1..3 : c[i] = U8ToF32(17 * HexDigitValue[t[i + 1]])
    /\ c[4] = IF Len(t) = 4 THEN U8ToF32(255) ELSE U8ToF32(17 * HexDigitValue[t[5]])

\* the colour of '#' and 6 or 8 digits
LongForm(t, c) ==
    /\ \A i \in 1..3 : c[i] = U8ToF32(ByteAt(t, 2 * i))
    /\ c[4] = IF Len(t) = 7 THEN U8ToF32(255) ELSE U8ToF32(ByteAt(t, 8))

HexForm(t, colour, use_alpha) ==
    /\ Len(t) \in {4, 5, 7, 9}
    /\ t[1] = "#"
    /\ HexDigits(Tail(t))
    /\ use_alpha
    /\ colour.space = "Srgba"
    /\ IF Len(t) <= 5 THEN ShortForm(t, colour.c) ELSE LongForm(t, colour.c)

\* C17: parse_color with format Hex returns a colour only when the trimmed
\* input is '#' followed by exactly 3, 4, 6 or 8 hexadecimal digits; the result
\* then has use_alpha = true, alpha 255 for 3 and 6 digits, and each short
\* digit d expanded to 17 * d.
C17_HexDigitsOnly ==
    (ParsedAs("Hex") /\ ret.some) => HexForm(trim(arg.s), ret.value[1], ret.value[2])

\* the colour of '0x' and 6 digits (RRGGBB) or 8 digits (AARRGGBB)
LiteralForm(t, colour, use_alpha) ==
    /\ Len(t) \in {8, 10}
    /\ Slice(t, 1, 2) = <<"0", "x">>
    /\ HexDigits(Drop(t, 2))
    /\ colour.space = "Srgba"
    /\ use_alpha = (Len(t) = 10)
    /\ \A i \in 1..3 : colour.c[i] = U8ToF32(ByteAt(t, Len(t) - 7 + 2 * i))
    /\ colour.c[4] = IF Len(t) = 8 THEN U8ToF32(255) ELSE U8ToF32(ByteAt(t, 3))

\* C18: parse_color with format HexLiteral accepts only '0x' followed by 6 or
\* 8 hexadecimal digits: 6 digits are RRGGBB with alpha 255 and use_alpha =
\* false, 8 digits are AARRGGBB with use_alpha = true.
C18_HexLiteralDigitsOnly ==
    (ParsedAs("HexLiteral") /\ ret.some) =>
        LiteralForm(trim(arg.s), ret.value[1], ret.value[2])

\* the positions of the commas of t, then the position after its end
Commas(t) == {i \in 1..Len(t) : t[i] = ","} \cup {Len(t) + 1}

\* the end of the k-th field of t: its k-th comma, or the end of t
FieldEnd(t, k) == CHOOSE i \in Commas(t) : Cardinality({j \in Commas(t) : j < i}) = k - 1

\* s without the spaces and tabs around it
Stripped(s) ==
    IF Span(s, Space) = Len(s) THEN <<>>
    ELSE Slice(s, Span(s, Space) + 1, Len(s) - SpanEnd(s, Space))

\* the texts between the commas of t, without the spaces around them
Fields(t) ==
    [k \in 1..Cardinality(Commas(t)) |->
        Stripped(Slice(t, IF k = 1 THEN 1 ELSE FieldEnd(t, k - 1) + 1, FieldEnd(t, k) - 1))]

\* digits with an optional point and digits after it, or a point and digits
Decimal(s) ==
    \E n \in 0..Len(s), m \in 0..Len(s) :
        /\ \/ n > 0 /\ m = 0 /\ Len(s) = n
           \/ n > 0 /\ Len(s) = n + 1 + m /\ s[n + 1] = "."
           \/ n = 0 /\ m > 0 /\ Len(s) = 1 + m /\ s[1] = "."
        /\ \A i \in 1..n : s[i] \in Digit
        /\ \A i \in (Len(s) - m + 1)..Len(s) : s[i] \in Digit

\* a number: a decimal, with a sign or without
Number(s) == Decimal(s) \/ (Len(s) > 1 /\ s[1] \in {"-", "+"} /\ Decimal(Tail(s)))

\* a decimal without a sign whose integer part, if it has several digits, does
\* not begin with a zero
Literal(s) == Decimal(s) /\ ~(Len(s) > 1 /\ s[1] = "0" /\ s[2] \in Digit)

RawFormats == {"RawRgbFloat", "RawRgbLinear", "RawOklch"}

ParsedRaw == pc = "done" /\ fn = "parse_color" /\ arg.input_format \in RawFormats

\* alpha 1 and use_alpha = false with three components, use_alpha = true with four
RawAlpha(t, colour, use_alpha) ==
    /\ use_alpha = (Len(Fields(t)) = 4)
    /\ Len(Fields(t)) = 3 => colour.c[4] = One(Half)

\* C19: parse_color with a raw component format succeeds exactly when the
\* trimmed input is 3 or 4 numbers separated by commas with optional spaces
\* around each comma; 3 numbers give alpha 1 and use_alpha = false, 4 numbers
\* give use_alpha = true.
C19_RawNumbers ==
    ParsedRaw =>
        /\ ret.some <=> (/\ Len(Fields(trim(arg.s))) \in {3, 4}
                         /\ \A k \in DOMAIN Fields(trim(arg.s)) : Number(Fields(trim(arg.s))[k]))
        /\ ret.some => RawAlpha(trim(arg.s), ret.value[1], ret.value[2])

\* C19, amended: parse_color with a raw component format succeeds exactly when
\* the trimmed input is 3 or 4 unsigned decimals (digits with an optional
\* point and digits, or a point and digits; no sign, no exponent, no zero
\* before the integer part) separated by commas with optional spaces or tabs
\* around each comma; 3 give alpha 1 and use_alpha = false, 4 give
\* use_alpha = true.
C19_RawLiterals ==
    ParsedRaw =>
        /\ ret.some <=> (/\ Len(Fields(trim(arg.s))) \in {3, 4}
                         /\ \A k \in DOMAIN Fields(trim(arg.s)) : Literal(Fields(trim(arg.s))[k]))
        /\ ret.some => RawAlpha(trim(arg.s), ret.value[1], ret.value[2])

\* C19 witness: four components with spaces and a tab around the commas,
\* read as RawOklch
C19_Witness ==
    /\ ParsedAs("RawOklch") /\ ret.some /\ ret.value[2]
    /\ Len(Fields(trim(arg.s))) = 4
    /\ \E i \in 1..Len(arg.s) : arg.s[i] = "\t"
    /\ ret.value[1].c[1] = One(Half) \div 4

\* the text between the parentheses of t
Arguments(t) ==
    Slice(t, 1 + (CHOOSE i \in 1..Len(t) : t[i] = "("), Len(t) - 1)

\* the field is a percentage
Percentage(s) == Len(s) > 0 /\ s[Len(s)] = "%"

\* the input is written with commas
Legacy(t) == \E i \in 1..Len(t) : t[i] = ","

\* C20: the legacy comma-separated rgb()/rgba() form is accepted only when
\* its three colour components are all percentages or all plain numbers; an
\* input that mixes the two makes parse_color with format Rgb return None.
C20_LegacyNoMixedUnits ==
    (ParsedAs("Rgb") /\ Legacy(trim(arg.s)) /\ ret.some) =>
        /\ Len(Fields(Arguments(trim(arg.s)))) \in {3, 4}
        /\ \/ \A k \in 1..3 : Percentage(Fields(Arguments(trim(arg.s)))[k])
           \/ \A k \in 1..3 : Literal(Fields(Arguments(trim(arg.s)))[k])

\* C20 witness: rgba() with three percentages and an alpha that is a number
C20_Witness ==
    /\ ParsedAs("Rgb") /\ Legacy(trim(arg.s)) /\ ret.some
    /\ Len(Fields(Arguments(trim(arg.s)))) = 4
    /\ \A k \in 1..3 : Percentage(Fields(Arguments(trim(arg.s)))[k])
    /\ ~Percentage(Fields(Arguments(trim(arg.s)))[4])
    /\ arg.s[4] = "a"

-----------------------------------------------------------------------------
(* The claims about colours of no lightness and about the fallbacks of     *)
(* App::calculate_fallbacks, checked under SpecClip.                       *)

\* the slow path ran on an input whose Oklab lightness is <= 0
ClippedDark == Clipped /\ ~ret.fast /\ ret.laba.lightness <= 0

Black(c) == c.red = 0 /\ c.green = 0 /\ c.blue = 0

\* C22: for an out-of-gamut input whose Oklab lightness is <= 0,
\* find_gamut_intersection returns t = 0 from its lower half and
\* gamut_clip_preserve_chroma returns black, for every hue and chroma.
C22_DarkClipsToBlack == ClippedDark => (ret.t = 0 /\ Black(ret.out))

Fallen == pc = "done" /\ fn = "calculate_fallbacks"

Channels == {"red", "green", "blue"}

\* (a - b).abs() > 0.003 as f32 compares: never true of a NaN
MoreThanThreshold(a, b) == a # NaN /\ b # NaN /\ Abs(a - b) > Threshold

\* the rule of one colour: in Oklrch mode the fallback is
\* gamut_clip_preserve_chroma(color) and the flag says that some channel
\* of it is more than 0.003 away from the colour; otherwise the fallback is
\* clamp_rgba(color) and the flag is false
FallbackRule(is_oklch, color, fallback, is_fallback) ==
    IF is_oklch
    THEN /\ fallback = ClipRun(color).out
         /\ is_fallback <=> \E ch \in Channels : MoreThanThreshold(fallback[ch], color[ch])
    ELSE /\ fallback = clamp_rgba(color)
         /\ ~is_fallback

\* C21: App::calculate_fallbacks applies the rule of the picker mode to the
\* current colour and, independently, to the previous colour: Oklrch gives
\* the gamut-clipped colour and a flag that is true iff some red, green or
\* blue channel moved by more than 0.003, Okhsv gives the clamped colour and
\* a flag that is always false, also for a colour with a channel outside
\* [0, 1].
C21_FallbackRule ==
    Fallen =>
        /\ FallbackRule(arg.is_oklch, arg.color, ret.cur, ret.is_cur_fallback)
        /\ FallbackRule(arg.is_oklch, arg.prev_color, ret.prev, ret.is_prev_fallback)

\* C21 witness: in Oklrch mode the current colour was clipped by more than
\* 0.003 and flagged while the previous colour, in gamut, was not
C21_Witness ==
    /\ Fallen /\ arg.is_oklch
    /\ ~RgbInUnit(arg.color) /\ ret.is_cur_fallback /\ RgbInUnit(ret.cur)
    /\ RgbInUnit(arg.prev_color) /\ ~ret.is_prev_fallback /\ ret.prev = arg.prev_color

\* in Okhsv mode a colour with a channel outside [0, 1] was clamped and not
\* flagged
C21_WitnessOkhsv ==
    /\ Fallen /\ ~arg.is_oklch
    /\ ~RgbInUnit(arg.color) /\ ~ret.is_cur_fallback /\ RgbInUnit(ret.cur)
    /\ ~RgbInUnit(arg.prev_color) /\ ~ret.is_prev_fallback /\ RgbInUnit(ret.prev)

\* a grey with channels of -0.5 in Oklrch mode: the clipped channels are NaN
\* and the flag is false
C21_NaNNotFlagged ==
    /\ Fallen /\ arg.is_oklch /\ ret.cur.red = NaN /\ ~ret.is_cur_fallback

-----------------------------------------------------------------------------
(* The claim about the Lua module, checked under SpecLua.                  *)

LuaParsed == pc = "done" /\ fn = "parse"

\* the name in lower-case letters
Lowered(name) == [i \in 1..Len(name) |-> to_ascii_lowercase(name[i])]

\* the name is, whatever the case of its letters, one of the format names
KnownFormatName(name) == \E i \in DOMAIN CliColorFormat : Lowered(name) = CliColorFormat[i]

\* the ColorFormat a known name stands for
FormatNamed(name) ==
    ColorFormat_from[CHOOSE i \in DOMAIN CliColorFormat : Lowered(name) = CliColorFormat[i]]

\* the colour the text reads as: in the format named, or in the first
\* auto-detectable format that accepts it when no format is named
ColourRead(color, fmt) ==
    IF fmt.some THEN parse_color(color, FormatNamed(fmt.value))
    ELSE parse_color_unknown_format(color)

\* the 8-bit sRGB channels of a colour, an Oklch colour gamut-clipped first
\* and no other
EightBit(colour) ==
    to_u8_array_no_alpha(
        IF colour.space = "Oklcha"
        THEN Srgba_from_LinearRgba(ClipRun(LinearRgba_from_Color(colour)).out)
        ELSE Srgba_from_Color(colour))

RGB(u8) == u8[1] * 65536 + u8[2] * 256 + u8[3]

\* C25: the Lua module's parse(color, fmt) raises a runtime error when fmt is
\* given and is not a known format name; otherwise it returns nil when the
\* text does not parse (in the format given, or in any auto-detectable format
\* when fmt is absent), and otherwise the integer r*65536 + g*256 + b of the
\* 8-bit sRGB channels, within [0, 0xFFFFFF], with gamut clipping applied
\* before packing only when the colour parsed is an Oklch colour.
C25_LuaParse ==
    LuaParsed =>
        IF arg.fmt.some /\ ~KnownFormatName(arg.fmt.value) THEN ret = LuaRuntimeError
        ELSE IF ~ColourRead(arg.color, arg.fmt).some THEN ret = LuaNil
        ELSE /\ ret.type = "integer"
             /\ ret.value \in 0..16777215
             /\ ret.value = RGB(EightBit(ColourRead(arg.color, arg.fmt).value[1]))

\* C25 witness: with the format named in capitals an Oklch colour out of the
\* gamut was read, clipped and packed; unclipped it packs to another integer
C25_Witness ==
    /\ LuaParsed /\ arg.fmt = Some(<<"O", "K", "L", "C", "H">>)
    /\ ret.type = "integer" /\ ret.value > 0 /\ ret.value < 16777215
    /\ ~InGamut(LinearRgba_from_Color(ColourRead(arg.color, arg.fmt).value[1]))
    /\ ret.value # RGB(to_u8_array_no_alpha(
                          Srgba_from_Color(ColourRead(arg.color, arg.fmt).value[1])))

\* a colour of linear RGB out of the gamut was packed without clipping
C25_LinearNotClipped ==
    /\ LuaParsed /\ arg.fmt.some /\ KnownFormatName(arg.fmt.value)
    /\ FormatNamed(arg.fmt.value) = "RawRgbLinear"
    /\ ret.type = "integer"
    /\ ~InGamut(LinearRgba_from_Color(ColourRead(arg.color, arg.fmt).value[1]))

\* a text that no auto-detectable format accepts gave nil
C25_NilWithoutFormat == LuaParsed /\ ~arg.fmt.some /\ arg.color # <<>> /\ ret = LuaNil

\* hex_literal, a ColorFormat that CliColorFormat does not have, raised an error
C25_ErrorForHexLiteral ==
    /\ LuaParsed /\ ret = LuaRuntimeError
    /\ arg.fmt = Some(<<"h", "e", "x", "_", "l", "i", "t", "e", "r", "a", "l">>)

-----------------------------------------------------------------------------
(* The claim about a well-formed request of the parser daemon, checked     *)
(* under SpecMessage.                                                      *)

\* handle_message has returned from a request of a number and parts
Handled == pc = "done" /\ fn = "handle_message" /\ "parts" \in DOMAIN arg

\* the request is well formed: the number is a u32 and every part has a ';'
WellFormed ==
    /\ parse_u32(arg.number)
    /\ \A i \in 1..Len(arg.parts) : IndexOf(arg.parts[i], ";", 1) > 0

\* the format name and the colour of the i-th part
FormatOf(i) == Slice(arg.parts[i], 1, IndexOf(arg.parts[i], ";", 1) - 1)

ColourOf(i) == Drop(arg.parts[i], IndexOf(arg.parts[i], ";", 1))

\* the i-th part names no format, or its colour does not parse in the
\* format it names
Unreadable(i) ==
    IF FormatOf(i) = <<"a", "u", "t", "o">>
    THEN ~parse_color_unknown_format(ColourOf(i)).some
    ELSE \/ ~KnownFormatName(FormatOf(i))
         \/ ~parse_color(ColourOf(i), FormatNamed(FormatOf(i))).some

\* the text between the "N:" and the newline of the response
ResponseBody ==
    Slice(ret.response, Len(arg.number) + 2, Len(ret.response) - 1)

\* the result of the i-th part when it is the only part of the request
ResultAlone(i) ==
    Let(handle_message(RequestLine(arg.number, <<arg.parts[i]>>)).response,
        LAMBDA alone : Slice(alone, Len(arg.number) + 2, Len(alone) - 1))

\* C23: for a line "N:f1;c1<d>f2;c2<d>..." (<d> the two U+00BF characters)
\* where N parses as a u32 and every part contains ';', handle_message
\* returns "N:", then exactly one result per request part, in request order
\* and joined by <d>, then a newline; a part whose format name is unknown or
\* whose colour does not parse yields "ERR", and every part yields what it
\* yields as the only part of a request.
C23_WellFormedRequest ==
    (Handled /\ WellFormed) =>
        /\ ret.ok
        /\ Slice(ret.response, 1, Len(arg.number) + 1) = arg.number \o <<":">>
        /\ ret.response[Len(ret.response)] = "\n"
        /\ Len(split(ResponseBody)) = Len(arg.parts)
        /\ \A i \in 1..Len(arg.parts) :
            /\ split(ResponseBody)[i] = ResultAlone(i)
            /\ Unreadable(i) <=> split(ResponseBody)[i] = ERR
            /\ ~Unreadable(i) => split(ResponseBody)[i][1] = "#"

\* a request of three parts with an unknown format name between two colours
\* that parse to different results has been answered
C23_Witness ==
    /\ Handled /\ WellFormed
    /\ Len(arg.parts) = 3
    /\ ~Unreadable(1) /\ Unreadable(2) /\ ~Unreadable(3)
    /\ ~KnownFormatName(FormatOf(2))
    /\ split(ResponseBody)[1] # split(ResponseBody)[3]

\* a request whose second part's colour does not parse has been answered
C23_WitnessColour ==
    /\ Handled /\ WellFormed
    /\ Len(arg.parts) >= 2
    /\ KnownFormatName(FormatOf(2))
    /\ Unreadable(2)
    /\ ~Unreadable(1)

\* the number of the response is the text of the request, not the value
C23_NumberEchoed ==
    /\ Handled /\ WellFormed
    /\ arg.number = <<"+", "5">>
    /\ Slice(ret.response, 1, 3) = <<"+", "5", ":">>

-----------------------------------------------------------------------------
(* The claim about a malformed request of the parser daemon, checked under *)
(* SpecDaemon.                                                             *)

\* the text before the first ':' of a line that has one, and the parts
\* after it
NumberOf(line) == Slice(line, 1, IndexOf(line, ":", 1) - 1)

PartsOf(line) == split(Drop(line, IndexOf(line, ":", 1)))

\* the line is "test", has no ':', has a part without ';', or its number is
\* not a u32
Malformed(line) ==
    \/ line = <<"t", "e", "s", "t">>
    \/ IndexOf(line, ":", 1) = 0
    \/ \E i \in 1..Len(PartsOf(line)) : IndexOf(PartsOf(line)[i], ";", 1) = 0
    \/ ~parse_u32(NumberOf(line))

\* the step is an iteration in which read_line yielded a line and its
\* newline
LineStep ==
    /\ conn.open /\ conn'.open
    /\ conn'.lines = conn.lines + 1
    /\ ~conn'.eof

\* the step is an iteration in which read_line yielded no text
NoTextStep == conn.open /\ conn'.open /\ conn'.lines = conn.lines

\* the step ends the task
TaskEnds == conn.open /\ conn.pos = "reading" /\ conn'.open /\ conn'.pos # "reading"

\* the line of the step is malformed: nothing is written to the client, the
\* buffer is cleared and the task reads on
MalformedStep ==
    (LineStep /\ Malformed(conn'.line.value)) =>
        /\ conn'.sent = conn.sent
        /\ conn'.buffer = <<>>
        /\ conn'.pos = "reading"
        /\ Len(conn'.stderr) = Len(conn.stderr) + 1

\* the line of the step is well formed: one response is written and the
\* buffer is cleared, or the write fails and the task ends
WellFormedStep ==
    (LineStep /\ ~Malformed(conn'.line.value)) =>
        \/ /\ Len(conn'.sent) = Len(conn.sent) + 1
           /\ conn'.buffer = <<>>
           /\ conn'.pos = "reading"
        \/ /\ conn'.sent = conn.sent
           /\ conn'.pos = "returned"
           /\ conn'.stderr = Append(conn.stderr, "Send failed")

\* the task ends on a read error, on the end of the stream or on a write
\* that fails
EndStep ==
    TaskEnds =>
        \/ NoTextStep /\ conn'.stderr = Append(conn.stderr, "Read failed")
        \/ /\ NoTextStep
           /\ stdout' = Append(stdout, "EOF reached, disconnecting client")
        \/ /\ LineStep /\ ~Malformed(conn'.line.value)
           /\ conn'.stderr = Append(conn.stderr, "Send failed")

\* the line handled is the line read, from a buffer that was empty
EmptyBufferStep ==
    LineStep =>
        /\ conn.buffer = <<>>
        /\ conn'.line = Some(Slice(conn'.read, 1, Len(conn'.read) - 1))

\* C24: when handle_message fails (the line is "test", has no ':', has a
\* part without ';', or its N is not a u32) the daemon writes nothing to the
\* client for that line, clears its line buffer and keeps the connection
\* open to read the next line; the task of a connection ends only on a read
\* error, on EOF or on a failed write; and every line is processed from an
\* empty buffer.
C24_MalformedRequest ==
    [][MalformedStep /\ WellFormedStep /\ EndStep /\ EmptyBufferStep]_vars

\* a line whose number is not a u32 was passed over, and the line after it
\* has been answered
C24_Witness ==
    /\ Reading
    /\ conn.lines = 2
    /\ conn.stderr = <<"invalid number">>
    /\ conn.line = Some(<<"7", ":", "h", "e", "x", ";", "#", "f", "f", "f">>)
    /\ conn.sent = <<<<"7", ":", "#", "f", "f", "f", "\n">>>>
    /\ conn.buffer = <<>>

\* the lines "test", without ':' and without ';' were passed over one after
\* the other
C24_WitnessShapes ==
    /\ Reading
    /\ conn.lines = 3
    /\ conn.sent = <<>>
    /\ conn.stderr = <<"test", "Read didn't contain the ':' delimiter !",
                       "Read didn't contain the ';' delimiter !">>

\* the task has ended on a write that failed, after a malformed line
C24_WitnessSendFailed ==
    /\ conn.open /\ conn.pos = "returned"
    /\ conn.stderr = <<"test", "Send failed">>

\* the stream ended within a line: the text stays in the buffer and no line
\* is processed after it
C24_WitnessUnfinished ==
    /\ conn.open /\ conn.eof /\ conn.pos = "broken"
    /\ conn.buffer # <<>>
    /\ conn.stderr = <<"Read didn't end in newline!">>

====
